---- MODULE Spec2Model ----
(***************************************************************************)
(* State-machine model of the CodeAI-Pak web client:                       *)
(*   - the React Dashboard component (codeai-frontend/src/AuthPage.jsx,    *)
(*     second half of the file): code input, the four analysis actions,    *)
(*     the result store and the collapsible panels;                        *)
(*   - the React AuthPage component and the App identity state;            *)
(*   - the three logout handlers (Navbar, Dashboard, legacy script.js).    *)
(* Every handler is one action.  An `await` splits a handler into the part *)
(* that runs in the triggering event and one continuation per awaited      *)
(* promise; the state updates a continuation makes are applied together.   *)
(* Strings that the code inspects (the code input) are sequences of        *)
(* one-character strings.                                                  *)
(***************************************************************************)
EXTENDS Naturals, Integers, Sequences, FiniteSets, TLC

VARIABLES
    \* ---- Dashboard (useState hooks, AuthPage.jsx 262-271) ----
    uploadedFile,      \* the File last selected, or NoFile
    codeInput,         \* text of the editor
    language,          \* "en" | "ur"
    isAnalyzing,       \* the busy flag
    activeAnalysis,    \* the active kind, or Null
    results,           \* the result store: function from the kinds present
    expandedSections,  \* function from the kinds present to BOOLEAN
    \* ---- Dashboard environment ----
    pending,           \* fetch requests in flight, with the handler's closure
    timers,            \* setTimeout callbacks of runSecurityScan not yet fired
    reads,             \* FileReader reads not yet completed
    alertShown,        \* alert raised by the most recent handler, or NoAlert
    accepted,          \* number of action clicks that started an analysis
    requestsSent,      \* number of fetch calls the analyze handlers have made
    editedSinceUpload, \* the editor was typed into since the file selections began
    \* ---- AuthPage (useState hooks, AuthPage.jsx 5-13) and App (App.jsx 638) ----
    isLogin,           \* login mode (TRUE) or register mode
    formData,          \* [name, email, password]
    loading,           \* the submit button's loading flag
    error,             \* error message shown, << >> when none
    success,           \* success message shown, << >> when none
    user,              \* App's identity, NoUser when null
    \* ---- AuthPage / App environment ----
    route,             \* the router's pathname
    authPending,       \* login/register requests in flight, with their closure
    redirects,         \* setTimeout(navigate('/dashboard')) callbacks not yet fired
    sessionCheck,      \* phase of App's check-session fetch
    submits,           \* number of form submissions made
    authRequestsSent,  \* number of fetch calls handleSubmit has made
    \* ---- logout handlers (Navbar, Dashboard, legacy script.js) ----
    location,          \* window.location of each client's page
    logoutPending,     \* POST /api/logout requests in flight, per client
    logoutSettled,     \* outcome of the logout request that navigated, per client
    sessionStorageSet, \* legacy page: sessionStorage holds items
    localStorageSet,   \* legacy page: localStorage holds items
    \* ---- result panels (QualityResults, BugResults, DocsResults, SecurityResults) ----
    panelProps,        \* props of the panel rendered last: kind, results, language
    displayed,         \* what that panel shows: issue rows and documentation text
    clipboard,         \* text written by navigator.clipboard.writeText
    \* ---- legacy dashboard (script.js initDashboard) ----
    fileInput,         \* elements.fileInput.files[0], or NoFile
    fileLabel,         \* text of the file label
    analyzeBtnDisabled, \* elements.analyzeBtn.disabled
    errorMsg,          \* [display, text] of elements.errorMsg
    resultsArea,       \* display of elements.resultsArea
    welcomeState,      \* display of elements.welcomeState
    geminiMetrics,     \* display of elements.geminiMetrics
    stats,             \* the report whose figures are on screen, NoReport for the dashes
    bugReportPre,      \* textContent of elements.bugReportPre
    correctedCodePre,  \* textContent of elements.correctedCodePre
    currentReport,     \* the closure variable currentReport
    downloadReport,    \* [display, href] of elements.downloadReport
    downloadPdf,       \* [display, href] of elements.downloadPdf
    isLoggedIn,        \* sessionStorage has the item 'isLoggedIn'
    analyzePending,    \* POST /analyze requests in flight
    analyzeCount,      \* number of POST /analyze requests sent
    lastSuccess,       \* payload of the /analyze that succeeded last
    translateBtn,      \* [disabled, text] of elements.translateBtn
    translatePending,  \* runs of the translate handler waiting for /translate_to_urdu
    translateTimers,   \* pending setTimeout callbacks of the translate handler
    translateCount,    \* number of clicks on the translate button
    translateSent,     \* texts sent to /translate_to_urdu
    resetAt            \* number of POST /analyze requests sent before the last reset

dashVars == <<uploadedFile, codeInput, language, isAnalyzing, activeAnalysis,
              results, expandedSections, pending, timers, reads, alertShown, accepted,
              requestsSent, editedSinceUpload>>

authVars == <<isLogin, formData, loading, error, success, user, route, authPending,
              redirects, sessionCheck, submits, authRequestsSent>>

logoutVars == <<location, logoutPending, logoutSettled, sessionStorageSet,
                localStorageSet>>

renderVars == <<panelProps, displayed, clipboard>>

legacyVars == <<fileInput, fileLabel, analyzeBtnDisabled, errorMsg, resultsArea,
                welcomeState, geminiMetrics, stats, bugReportPre, correctedCodePre,
                currentReport, downloadReport, downloadPdf, isLoggedIn, analyzePending,
                analyzeCount, lastSuccess, translateBtn, translatePending,
                translateTimers, translateCount, translateSent, resetAt>>

vars == <<dashVars, authVars, logoutVars, renderVars, legacyVars>>

----------------------------------------------------------------------------
(* Values *)

Null == "null"

\* useState(null) of uploadedFile: no File object.
NoFile == [name |-> Null]

\* The null that getCodeToAnalyze returns for an empty (falsy) trimmed text.
NullCode == <<Null>>

Kinds == {"quality", "bugs", "docs", "security"}

\* The kinds whose handler calls fetch (analyzeQuality, analyzeBugs, generateDocs).
FetchKinds == {"quality", "bugs", "docs"}

Languages == {"en", "ur"}

\* JavaScript's undefined, as a value of the result store.
Undefined == [tag |-> "undefined"]

\* Payloads the backend may put in the `results` field of a 2xx body.
BackendPayloads == {[tag |-> "payload", id |-> "R1"], [tag |-> "payload", id |-> "R2"]}

\* Texts the user may type into the editor: empty, blank, padded.
CodeTexts == {<< >>, <<" ">>, <<" ", "a", " ">>}

\* Files the user may select: a name and the text readAsText yields.
Files == {[name |-> "f1.py", text |-> <<"b">>],
          [name |-> "f2.js", text |-> <<" ", "a", " ">>]}

\* The file selected in the runs of the analysis flow.
DashFiles == {[name |-> "f1.py", text |-> <<"b">>]}

\* Cap on the number of requests and timers in flight together.
MaxPending == 2

\* Cap on the number of action clicks that start an analysis.
MaxActions == 2

----------------------------------------------------------------------------
(* Pure helpers *)

IsSpace(c) == c = " "

RECURSIVE TrimStart(_)
TrimStart(s) == IF s # << >> /\ IsSpace(Head(s)) THEN TrimStart(Tail(s)) ELSE s

RECURSIVE TrimEnd(_)
TrimEnd(s) ==
    IF s # << >> /\ IsSpace(s[Len(s)]) THEN TrimEnd(SubSeq(s, 1, Len(s) - 1)) ELSE s

\* String.prototype.trim
Trim(s) == TrimEnd(TrimStart(s))

\* Mutant of getCodeToAnalyze: the input is not trimmed.
getCodeToAnalyze_NoTrim == IF codeInput = << >> THEN NullCode ELSE codeInput

\* codeInput.trim() || null : the empty string is falsy.
getCodeToAnalyze == IF Trim(codeInput) = << >> THEN NullCode ELSE Trim(codeInput)

\* Mutant of PayloadFileName: the uploaded file is not looked at.
PayloadFileName_Default == "code.py"

\* uploadedFile?.name || 'code.py'
PayloadFileName == IF uploadedFile = NoFile THEN "code.py" ELSE uploadedFile.name

\* Mutant of Spread: { [k]: v, ...prev }, an existing entry wins.
Spread_KeepOld(prev, k, v) ==
    [x \in (DOMAIN prev) \cup {k} |-> IF x \in DOMAIN prev THEN prev[x] ELSE v]

\* { ...prev, [k]: v }
Spread(prev, k, v) ==
    [x \in (DOMAIN prev) \cup {k} |-> IF x = k THEN v ELSE prev[x]]

\* obj[k] of a JavaScript object: undefined when the key is absent.
Get(obj, k) == IF k \in DOMAIN obj THEN obj[k] ELSE Undefined

\* !p[k] for an object of booleans: !undefined is true.
NotFlag(p, k) == IF k \in DOMAIN p THEN ~p[k] ELSE TRUE

\* JavaScript truthiness of a result-store value.
Truthy(v) == v # Undefined

\* translations[lang][key]
Translate(lang, key) == [lang |-> lang, key |-> key]

NoAlert == [lang |-> "none", key |-> "none"]

\* Mutant of SecurityPayload: the two findings in the other order.
SecurityPayload_Swapped ==
    [vulnerabilities |-> 2,
     securityScore |-> 75,
     issues |-> << [severity |-> "medium", type |-> "XSS Risk", line |-> 78,
                    description |-> "Unescaped output"],
                   [severity |-> "high", type |-> "SQL Injection", line |-> 45,
                    description |-> "Unsanitized user input"] >>]

\* The hardcoded findings of runSecurityScan.
SecurityPayload ==
    [vulnerabilities |-> 2,
     securityScore |-> 75,
     issues |-> << [severity |-> "high", type |-> "SQL Injection", line |-> 45,
                    description |-> "Unsanitized user input"],
                   [severity |-> "medium", type |-> "XSS Risk", line |-> 78,
                    description |-> "Unescaped output"] >>]

\* The sequence s without its i-th element.
RemoveAt(s, i) == SubSeq(s, 1, i - 1) \o SubSeq(s, i + 1, Len(s))

\* Number of analyses in flight: fetch requests plus security timers.
InFlight == Len(pending) + Len(timers)

----------------------------------------------------------------------------
(* Dashboard: initial state and handlers *)

DashInit ==
    /\ uploadedFile = NoFile
    /\ codeInput = << >>
    /\ language = "en"
    /\ isAnalyzing = FALSE
    /\ activeAnalysis = Null
    /\ results = << >>
    /\ expandedSections = << >>
    /\ pending = << >>
    /\ timers = << >>
    /\ reads = {}
    /\ alertShown = NoAlert
    /\ accepted = 0
    /\ requestsSent = 0
    /\ editedSinceUpload = FALSE

\* Mutant of EditCode: a new text also clears the result store.
EditCode_ClearsResults(text) ==
    /\ codeInput' = text
    /\ alertShown' = NoAlert
    /\ results' = << >>
    /\ UNCHANGED <<uploadedFile, language, isAnalyzing, activeAnalysis,
                   expandedSections, pending, timers, reads>>
    /\ editedSinceUpload' = TRUE
    /\ UNCHANGED <<accepted, requestsSent, authVars, logoutVars, renderVars, legacyVars>>

\* <textarea onChange={(e) => setCodeInput(e.target.value)}>
EditCode(text) ==
    /\ codeInput' = text
    /\ alertShown' = NoAlert
    /\ UNCHANGED <<uploadedFile, language, isAnalyzing, activeAnalysis, results,
                   expandedSections, pending, timers, reads>>
    /\ editedSinceUpload' = TRUE
    /\ UNCHANGED <<accepted, requestsSent, authVars, logoutVars, renderVars, legacyVars>>

\* Mutant of handleFileUpload: selecting a file abandons the analysis in flight.
handleFileUpload_ResetsBusy(file) ==
    /\ uploadedFile' = file
    /\ reads' = reads \cup {file}
    /\ alertShown' = NoAlert
    /\ isAnalyzing' = FALSE
    /\ activeAnalysis' = Null
    /\ UNCHANGED <<codeInput, language, results, expandedSections, pending, timers>>
    /\ editedSinceUpload' = (reads # {} /\ editedSinceUpload)
    /\ UNCHANGED <<accepted, requestsSent, authVars, logoutVars, renderVars, legacyVars>>

\* handleFileUpload: records the file and starts an asynchronous read.
handleFileUpload(file) ==
    /\ uploadedFile' = file
    /\ reads' = reads \cup {file}
    /\ alertShown' = NoAlert
    /\ UNCHANGED <<codeInput, language, isAnalyzing, activeAnalysis, results,
                   expandedSections, pending, timers>>
    /\ editedSinceUpload' = (reads # {} /\ editedSinceUpload)
    /\ UNCHANGED <<accepted, requestsSent, authVars, logoutVars, renderVars, legacyVars>>

\* reader.onload = (event) => setCodeInput(event.target.result)
readerOnload(file) ==
    /\ file \in reads
    /\ reads' = reads \ {file}
    /\ codeInput' = file.text
    /\ alertShown' = NoAlert
    /\ UNCHANGED <<uploadedFile, language, isAnalyzing, activeAnalysis, results,
                   expandedSections, pending, timers>>
    /\ UNCHANGED <<accepted, requestsSent, editedSinceUpload, authVars, logoutVars, renderVars, legacyVars>>

\* The language buttons of the settings panel.
setLanguage(l) ==
    /\ language' = l
    /\ alertShown' = NoAlert
    /\ UNCHANGED <<uploadedFile, codeInput, isAnalyzing, activeAnalysis, results,
                   expandedSections, pending, timers, reads>>
    /\ UNCHANGED <<accepted, requestsSent, editedSinceUpload, authVars, logoutVars, renderVars, legacyVars>>

\* Mutant of ButtonDisabled: the buttons are never disabled.
ButtonDisabled_Never == FALSE

\* disabled={isAnalyzing} on each of the four action buttons.
ButtonDisabled == isAnalyzing

\* The FormData and the closure of an analyze handler at the time of the click.
NewRequest(kind, code) ==
    [kind |-> kind, code |-> code, filename |-> PayloadFileName,
     language |-> language, phase |-> "fetch"]

\* The synchronous part of analyzeQuality / analyzeBugs / generateDocs.
StartFetch(kind) ==
    IF getCodeToAnalyze = NullCode
    THEN /\ alertShown' = Translate(language, "noCodeError")
         /\ UNCHANGED <<isAnalyzing, activeAnalysis, pending, accepted, requestsSent>>
    ELSE /\ isAnalyzing' = TRUE
         /\ activeAnalysis' = kind
         /\ pending' = Append(pending, NewRequest(kind, getCodeToAnalyze))
         /\ alertShown' = NoAlert
         /\ accepted' = accepted + 1
         /\ requestsSent' = requestsSent + 1

\* A click on the quality, bugs or docs button.
ClickAnalyze(kind) ==
    /\ kind \in FetchKinds
    /\ InFlight < MaxPending
    /\ accepted < MaxActions
    /\ IF ButtonDisabled
       THEN UNCHANGED <<isAnalyzing, activeAnalysis, pending, alertShown, accepted,
                        requestsSent>>
       ELSE StartFetch(kind)
    /\ UNCHANGED <<uploadedFile, codeInput, language, results, expandedSections,
                   timers, reads, editedSinceUpload, authVars, logoutVars, renderVars, legacyVars>>

\* The synchronous part of runSecurityScan: no fetch, a 2000 ms timer.
StartSecurity ==
    IF getCodeToAnalyze = NullCode
    THEN /\ alertShown' = Translate(language, "noCodeError")
         /\ UNCHANGED <<isAnalyzing, activeAnalysis, timers, accepted>>
    ELSE /\ isAnalyzing' = TRUE
         /\ activeAnalysis' = "security"
         /\ timers' = Append(timers, "security")
         /\ alertShown' = NoAlert
         /\ accepted' = accepted + 1

\* A click on the security button.
ClickSecurity ==
    /\ InFlight < MaxPending
    /\ accepted < MaxActions
    /\ IF ButtonDisabled
       THEN UNCHANGED <<isAnalyzing, activeAnalysis, timers, alertShown, accepted>>
       ELSE StartSecurity
    /\ UNCHANGED <<uploadedFile, codeInput, language, results, expandedSections,
                   pending, reads, requestsSent, editedSinceUpload, authVars,
                   logoutVars, renderVars, legacyVars>>

\* Mutant of FailAnalysis: the catch block sends the request again.
FailAnalysis_Retries(i) ==
    /\ alertShown' = Translate(pending[i].language, "analysisError")
    /\ pending' = [pending EXCEPT ![i].phase = "fetch"]
    /\ requestsSent' = requestsSent + 1
    /\ UNCHANGED <<isAnalyzing, activeAnalysis, results, expandedSections>>

\* Mutant of FailAnalysis: a body that does not parse gets its own message.
FailAnalysis_ShowsCause(i) ==
    /\ alertShown' = Translate(pending[i].language,
                               IF pending[i].phase = "json" THEN "parseError"
                               ELSE "analysisError")
    /\ isAnalyzing' = FALSE
    /\ activeAnalysis' = Null
    /\ pending' = RemoveAt(pending, i)
    /\ UNCHANGED <<results, expandedSections, requestsSent>>

\* Mutant of FailAnalysis: no finally block, the busy flag stays set.
FailAnalysis_NoFinally(i) ==
    /\ alertShown' = Translate(pending[i].language, "analysisError")
    /\ pending' = RemoveAt(pending, i)
    /\ UNCHANGED <<isAnalyzing, activeAnalysis, results, expandedSections, requestsSent>>

\* Mutant of FailAnalysis: the finally block clears the busy flag only.
FailAnalysis_KeepsKind(i) ==
    /\ alertShown' = Translate(pending[i].language, "analysisError")
    /\ isAnalyzing' = FALSE
    /\ pending' = RemoveAt(pending, i)
    /\ UNCHANGED <<activeAnalysis, results, expandedSections, requestsSent>>

\* catch { alert(t.analysisError) } finally { setIsAnalyzing(false); ... }
\* `t` is the translation table of the render in which the button was clicked.
FailAnalysis(i) ==
    /\ alertShown' = Translate(pending[i].language, "analysisError")
    /\ isAnalyzing' = FALSE
    /\ activeAnalysis' = Null
    /\ pending' = RemoveAt(pending, i)
    /\ UNCHANGED <<results, expandedSections, requestsSent>>

\* Mutant of SucceedAnalysis: only a panel that is new is expanded.
SucceedAnalysis_ExpandsNewOnly(i, value) ==
    /\ results' = Spread(results, pending[i].kind, value)
    /\ expandedSections' = Spread_KeepOld(expandedSections, pending[i].kind, TRUE)
    /\ isAnalyzing' = FALSE
    /\ activeAnalysis' = Null
    /\ pending' = RemoveAt(pending, i)
    /\ alertShown' = NoAlert
    /\ UNCHANGED requestsSent

\* setResults / setExpandedSections of a successful analyze handler, then finally.
SucceedAnalysis(i, value) ==
    /\ results' = Spread(results, pending[i].kind, value)
    /\ expandedSections' = Spread(expandedSections, pending[i].kind, TRUE)
    /\ isAnalyzing' = FALSE
    /\ activeAnalysis' = Null
    /\ pending' = RemoveAt(pending, i)
    /\ alertShown' = NoAlert
    /\ UNCHANGED requestsSent

\* `await fetch(...)` settles: a 2xx response, another status, or a rejection.
FetchOutcomes == {"ok", "notOk", "networkError"}

FetchSettled(i, outcome) ==
    /\ i \in 1..Len(pending)
    /\ pending[i].phase = "fetch"
    /\ IF outcome = "ok"
       THEN /\ pending' = [pending EXCEPT ![i].phase = "json"]
            /\ UNCHANGED <<isAnalyzing, activeAnalysis, results, expandedSections,
                           alertShown, requestsSent>>
       ELSE FailAnalysis(i)
    /\ UNCHANGED <<uploadedFile, codeInput, language, timers, reads>>
    /\ UNCHANGED <<accepted, editedSinceUpload, authVars, logoutVars, renderVars, legacyVars>>

\* Bodies of a 2xx response: not JSON, an object without `results`, or
\* an object whose `results` is a payload.
Malformed == [tag |-> "malformed"]

NoResultsField == [tag |-> "object"]

ResponseBodies ==
    {Malformed, NoResultsField} \cup {[tag |-> "object", results |-> p] : p \in BackendPayloads}

\* data.results
ResultsOf(body) == IF "results" \in DOMAIN body THEN body.results ELSE Undefined

\* `await response.json()` settles.
JsonSettled(i, body) ==
    /\ i \in 1..Len(pending)
    /\ pending[i].phase = "json"
    /\ IF body = Malformed
       THEN FailAnalysis(i)
       ELSE SucceedAnalysis(i, ResultsOf(body))
    /\ UNCHANGED <<uploadedFile, codeInput, language, timers, reads>>
    /\ UNCHANGED <<accepted, editedSinceUpload, authVars, logoutVars, renderVars, legacyVars>>

\* Mutant of SecurityTimeout: the callback does not clear the busy flag.
SecurityTimeout_NoReset(i) ==
    /\ i \in 1..Len(timers)
    /\ results' = Spread(results, "security", SecurityPayload)
    /\ expandedSections' = Spread(expandedSections, "security", TRUE)
    /\ timers' = RemoveAt(timers, i)
    /\ alertShown' = NoAlert
    /\ UNCHANGED <<isAnalyzing, activeAnalysis, uploadedFile, codeInput, language,
                   pending, reads>>
    /\ UNCHANGED <<accepted, requestsSent, editedSinceUpload, authVars, logoutVars, renderVars, legacyVars>>

\* The setTimeout callback of runSecurityScan.
SecurityTimeout(i) ==
    /\ i \in 1..Len(timers)
    /\ results' = Spread(results, "security", SecurityPayload)
    /\ expandedSections' = Spread(expandedSections, "security", TRUE)
    /\ isAnalyzing' = FALSE
    /\ activeAnalysis' = Null
    /\ timers' = RemoveAt(timers, i)
    /\ alertShown' = NoAlert
    /\ UNCHANGED <<uploadedFile, codeInput, language, pending, reads>>
    /\ UNCHANGED <<accepted, requestsSent, editedSinceUpload, authVars, logoutVars, renderVars, legacyVars>>

\* {results.K && <ResultSection ...>}: the panel of kind K is rendered.
PanelRendered(kind) == Truthy(Get(results, kind))

\* Mutant of TogglePanel: expanding one panel collapses the others.
TogglePanel_Accordion(kind) ==
    /\ PanelRendered(kind)
    /\ expandedSections' =
          [x \in (DOMAIN expandedSections) \cup {kind} |->
              IF x = kind THEN NotFlag(expandedSections, kind) ELSE FALSE]
    /\ alertShown' = NoAlert
    /\ UNCHANGED <<uploadedFile, codeInput, language, isAnalyzing, activeAnalysis,
                   results, pending, timers, reads>>
    /\ UNCHANGED <<accepted, requestsSent, editedSinceUpload, authVars, logoutVars, renderVars, legacyVars>>

\* onToggle of a rendered panel.
TogglePanel(kind) ==
    /\ PanelRendered(kind)
    /\ expandedSections' = Spread(expandedSections, kind, NotFlag(expandedSections, kind))
    /\ alertShown' = NoAlert
    /\ UNCHANGED <<uploadedFile, codeInput, language, isAnalyzing, activeAnalysis,
                   results, pending, timers, reads>>
    /\ UNCHANGED <<accepted, requestsSent, editedSinceUpload, authVars, logoutVars, renderVars, legacyVars>>

DashNext ==
    \/ \E text \in CodeTexts : EditCode(text)
    \/ \E file \in DashFiles : handleFileUpload(file)
    \/ \E file \in DashFiles : readerOnload(file)
    \/ \E l \in Languages : setLanguage(l)
    \/ \E kind \in FetchKinds : ClickAnalyze(kind)
    \/ ClickSecurity
    \/ \E i \in 1..MaxPending, outcome \in FetchOutcomes : FetchSettled(i, outcome)
    \/ \E i \in 1..MaxPending, body \in ResponseBodies : JsonSettled(i, body)
    \/ \E i \in 1..MaxPending : SecurityTimeout(i)
    \/ \E kind \in Kinds : TogglePanel(kind)

----------------------------------------------------------------------------
(* AuthPage and App: values *)

\* useState(null) of App's user.
NoUser == [username |-> Null, role |-> Null]

\* Values the user may type into the form fields.
Emails == {"a@b.com", "c@d.org"}

Passwords == {"x"}

Names == {"n"}

\* useState({ name: '', email: '', password: '' })
EmptyForm == [name |-> "", email |-> "", password |-> ""]

\* Messages are sequences of parts; the empty string is << >>.
NoMessage == << >>

LoginSuccessMsg == <<"Login successful!">>

RegisterSuccessMsg == <<"Account created successfully!">>

GenericErrorMsg == <<"An error occurred. Please try again.">>

ConnectErrorMsg == <<"Failed to connect to server. Please try again.">>

\* Array.prototype.join(sep) over message parts.
RECURSIVE Join(_, _)
Join(list, sep) ==
    IF list = << >> THEN << >>
    ELSE IF Len(list) = 1 THEN <<list[1]>>
    ELSE <<list[1], sep>> \o Join(Tail(list), sep)

\* JSON bodies of a login/register response.  A field that is absent from the
\* body is absent from the record.
AuthBodyFields(hasSuccess, hasRole, hasErrors, hasError) ==
    (IF hasSuccess THEN {"success"} ELSE {}) \cup (IF hasRole THEN {"role"} ELSE {})
    \cup (IF hasErrors THEN {"errors"} ELSE {}) \cup (IF hasError THEN {"error"} ELSE {})

AuthBody(fields, successFlag) ==
    [f \in fields \cup {"tag"} |->
        CASE f = "tag" -> "object"
          [] f = "success" -> successFlag
          [] f = "role" -> "admin"
          [] f = "errors" -> <<"Username taken", "Password too short">>
          [] f = "error" -> "Invalid credentials"]

AuthBodies ==
    {AuthBody(AuthBodyFields(hs, hr, hes, he), sf) :
        hs \in BOOLEAN, hr \in BOOLEAN, hes \in BOOLEAN, he \in BOOLEAN, sf \in BOOLEAN}

\* Bodies of a check-session response.
SessionUser == [username |-> "a@b.com", role |-> "admin"]

SessionBodies ==
    {[authenticated |-> TRUE, user |-> SessionUser], [authenticated |-> TRUE],
     [authenticated |-> FALSE], [authenticated |-> FALSE, user |-> SessionUser],
     [tag |-> "object"]}

\* Cap on the number of login/register requests in flight.
MaxAuthPending == 2

\* Cap on the number of form submissions.
MaxSubmits == 2

----------------------------------------------------------------------------
(* AuthPage and App: initial state and handlers *)

AuthInit ==
    /\ isLogin = TRUE
    /\ formData = EmptyForm
    /\ loading = FALSE
    /\ error = NoMessage
    /\ success = NoMessage
    /\ user = NoUser
    /\ route = "/auth"
    /\ authPending = << >>
    /\ redirects = 0
    /\ sessionCheck = "fetch"
    /\ submits = 0
    /\ authRequestsSent = 0

\* <Route path="/auth" element={<AuthPage .../>}>: the page exists while routed.
AuthMounted == route = "/auth"

\* The name field is rendered in register mode only.
FieldRendered(field) == field # "name" \/ ~isLogin

FieldValues(field) ==
    CASE field = "name" -> Names \cup {""}
      [] field = "email" -> Emails \cup {""}
      [] field = "password" -> Passwords \cup {""}

\* handleInputChange
handleInputChange(field, value) ==
    /\ AuthMounted
    /\ FieldRendered(field)
    /\ value \in FieldValues(field)
    /\ formData' = [formData EXCEPT ![field] = value]
    /\ error' = NoMessage
    /\ success' = NoMessage
    /\ UNCHANGED <<isLogin, loading, user, route, authPending, redirects,
                   sessionCheck, submits, authRequestsSent, dashVars, logoutVars, renderVars, legacyVars>>

\* toggleMode
toggleMode ==
    /\ AuthMounted
    /\ isLogin' = ~isLogin
    /\ error' = NoMessage
    /\ success' = NoMessage
    /\ formData' = EmptyForm
    /\ UNCHANGED <<loading, user, route, authPending, redirects, sessionCheck,
                   submits, authRequestsSent, dashVars, logoutVars, renderVars, legacyVars>>

\* disabled={loading} on the submit button.
SubmitDisabled == loading

\* `required` on every rendered input: the browser submits no incomplete form.
FormComplete ==
    \A field \in {"name", "email", "password"} :
        FieldRendered(field) => formData[field] # ""

\* endpoint and payload of handleSubmit, with the closure the continuation keeps.
AuthRequest ==
    [endpoint |-> IF isLogin THEN "/login" ELSE "/register",
     payload |-> IF isLogin
                 THEN [username |-> formData.email, password |-> formData.password]
                 ELSE [username |-> formData.email, password |-> formData.password,
                       role |-> "user"],
     isLogin |-> isLogin,
     email |-> formData.email,
     phase |-> "fetch",
     ok |-> FALSE]

\* Mutant of handleSubmit: the messages of the previous submission are kept.
handleSubmit_KeepsMessages ==
    /\ AuthMounted
    /\ FormComplete
    /\ submits < MaxSubmits
    /\ Len(authPending) < MaxAuthPending
    /\ IF SubmitDisabled
       THEN UNCHANGED <<loading, authPending, submits, authRequestsSent>>
       ELSE /\ loading' = TRUE
            /\ authPending' = Append(authPending, AuthRequest)
            /\ submits' = submits + 1
            /\ authRequestsSent' = authRequestsSent + 1
    /\ UNCHANGED <<isLogin, formData, error, success, user, route, redirects,
                   sessionCheck, dashVars, logoutVars, renderVars, legacyVars>>

\* The synchronous part of handleSubmit.
handleSubmit ==
    /\ AuthMounted
    /\ FormComplete
    /\ submits < MaxSubmits
    /\ Len(authPending) < MaxAuthPending
    /\ IF SubmitDisabled
       THEN UNCHANGED <<loading, error, success, authPending, submits, authRequestsSent>>
       ELSE /\ loading' = TRUE
            /\ error' = NoMessage
            /\ success' = NoMessage
            /\ authPending' = Append(authPending, AuthRequest)
            /\ submits' = submits + 1
            /\ authRequestsSent' = authRequestsSent + 1
    /\ UNCHANGED <<isLogin, formData, user, route, redirects, sessionCheck,
                   dashVars, logoutVars, renderVars, legacyVars>>

\* Mutant of AuthCatch: no finally block, the catch leaves the loading flag set.
AuthCatch_NoFinally(i) ==
    /\ IF AuthMounted
       THEN error' = ConnectErrorMsg
       ELSE UNCHANGED error
    /\ authPending' = RemoveAt(authPending, i)
    /\ UNCHANGED <<loading, success, user, redirects>>

\* State setters of an unmounted AuthPage have no effect.
\* catch { setError('Failed to connect ...') } finally { setLoading(false) }
AuthCatch(i) ==
    /\ IF AuthMounted
       THEN /\ error' = ConnectErrorMsg
            /\ loading' = FALSE
       ELSE UNCHANGED <<error, loading>>
    /\ authPending' = RemoveAt(authPending, i)
    /\ UNCHANGED <<success, user, redirects>>

\* `await fetch(...)` of handleSubmit settles.
AuthFetchSettled(i, outcome) ==
    /\ i \in 1..Len(authPending)
    /\ authPending[i].phase = "fetch"
    /\ IF outcome = "networkError"
       THEN AuthCatch(i)
       ELSE /\ authPending' = [authPending EXCEPT ![i].phase = "json",
                                                  ![i].ok = (outcome = "ok")]
            /\ UNCHANGED <<loading, error, success, user, redirects>>
    /\ UNCHANGED <<isLogin, formData, route, sessionCheck, submits, authRequestsSent, dashVars,
                   logoutVars, renderVars, legacyVars>>

\* data.success as a condition: absent (undefined) and false are falsy.
SuccessFlag(body) == "success" \in DOMAIN body /\ body.success

\* data.role || 'user'
RoleOf(body) == IF "role" \in DOMAIN body THEN body.role ELSE "user"

\* Mutant of FailureMessage: the single error is looked at before the list.
FailureMessage_ErrorFirst(body) ==
    IF "error" \in DOMAIN body THEN <<body.error>>
    ELSE IF "errors" \in DOMAIN body THEN Join(body.errors, ", ")
    ELSE GenericErrorMsg

\* The message of the else branch of handleSubmit.
FailureMessage(body) ==
    IF "errors" \in DOMAIN body THEN Join(body.errors, ", ")
    ELSE IF "error" \in DOMAIN body THEN <<body.error>>
    ELSE GenericErrorMsg

\* Mutant of AuthAccepted: the HTTP status is not looked at.
AuthAccepted_IgnoresStatus(req, body) == SuccessFlag(body)

\* response.ok && data.success
AuthAccepted(req, body) == req.ok /\ SuccessFlag(body)

\* onAuthSuccess({ username: formData.email, role: data.role || 'user' })
Identity(req, body) == [username |-> req.email, role |-> RoleOf(body)]

\* The branch `if (response.ok && data.success)` and finally.
AuthSucceed(i, body) ==
    /\ IF AuthMounted
       THEN /\ success' = IF authPending[i].isLogin THEN LoginSuccessMsg
                          ELSE RegisterSuccessMsg
            /\ loading' = FALSE
       ELSE UNCHANGED <<success, loading>>
    /\ user' = Identity(authPending[i], body)
    /\ redirects' = redirects + 1
    /\ authPending' = RemoveAt(authPending, i)
    /\ UNCHANGED error

\* The else branch and finally.
AuthFail(i, body) ==
    /\ IF AuthMounted
       THEN /\ error' = FailureMessage(body)
            /\ loading' = FALSE
       ELSE UNCHANGED <<error, loading>>
    /\ authPending' = RemoveAt(authPending, i)
    /\ UNCHANGED <<success, user, redirects>>

\* `await response.json()` of handleSubmit settles; Malformed rejects.
AuthJsonSettled(i, body) ==
    /\ i \in 1..Len(authPending)
    /\ authPending[i].phase = "json"
    /\ IF body = Malformed
       THEN AuthCatch(i)
       ELSE IF AuthAccepted(authPending[i], body)
            THEN AuthSucceed(i, body)
            ELSE AuthFail(i, body)
    /\ UNCHANGED <<isLogin, formData, route, sessionCheck, submits, authRequestsSent, dashVars,
                   logoutVars, renderVars, legacyVars>>

\* setTimeout(() => navigate('/dashboard'), 1000) fires.
RedirectFires ==
    /\ redirects > 0
    /\ redirects' = redirects - 1
    /\ route' = "/dashboard"
    /\ UNCHANGED <<isLogin, formData, loading, error, success, user, authPending,
                   sessionCheck, submits, authRequestsSent, dashVars, logoutVars, renderVars, legacyVars>>

\* App's effect: fetch(check-session) settles; a rejection is only logged.
SessionFetchSettled(outcome) ==
    /\ sessionCheck = "fetch"
    /\ sessionCheck' = IF outcome = "networkError" THEN "done" ELSE "json"
    /\ UNCHANGED <<isLogin, formData, loading, error, success, user, route,
                   authPending, redirects, submits, authRequestsSent, dashVars, logoutVars, renderVars, legacyVars>>

\* data.authenticated as a condition: absent (undefined) and false are falsy.
Authenticated(body) == "authenticated" \in DOMAIN body /\ body.authenticated

\* data.user: undefined when absent, which App holds like null.
UserOf(body) == IF "user" \in DOMAIN body THEN body.user ELSE NoUser

\* Mutant of SessionJsonSettled: the authenticated flag is not looked at.
SessionJsonSettled_NoCheck(body) ==
    /\ sessionCheck = "json"
    /\ sessionCheck' = "done"
    /\ user' = IF body # Malformed THEN UserOf(body) ELSE user
    /\ UNCHANGED <<isLogin, formData, loading, error, success, route, authPending,
                   redirects, submits, authRequestsSent, dashVars, logoutVars, renderVars, legacyVars>>

\* .then(res => res.json()).then(data => { if (data.authenticated) setUser(data.user) })
\* A rejected json() goes to .catch, which only logs.
SessionJsonSettled(body) ==
    /\ sessionCheck = "json"
    /\ sessionCheck' = "done"
    /\ user' = IF body # Malformed /\ Authenticated(body) THEN UserOf(body) ELSE user
    /\ UNCHANGED <<isLogin, formData, loading, error, success, route, authPending,
                   redirects, submits, authRequestsSent, dashVars, logoutVars, renderVars, legacyVars>>

AuthNext ==
    \/ \E field \in {"name", "email", "password"}, value \in Emails \cup Passwords \cup Names \cup {""} :
            handleInputChange(field, value)
    \/ toggleMode
    \/ handleSubmit
    \/ \E i \in 1..MaxAuthPending, outcome \in FetchOutcomes : AuthFetchSettled(i, outcome)
    \/ \E i \in 1..MaxAuthPending, body \in AuthBodies \cup {Malformed} : AuthJsonSettled(i, body)
    \/ RedirectFires
    \/ \E outcome \in FetchOutcomes : SessionFetchSettled(outcome)
    \/ \E body \in SessionBodies \cup {Malformed} : SessionJsonSettled(body)

----------------------------------------------------------------------------
(* Logout: Navbar.handleLogoutClick, Dashboard.handleLogout, script.js logout *)

LogoutClients == {"navbar", "dashboard", "legacy"}

\* Outcomes of `await fetch('/api/logout')`.
LogoutOutcomes == {"ok", "notOk", "networkError"}

\* Cap on the number of logout requests one page has in flight.
MaxLogoutPending == 2

LogoutInit ==
    /\ location = [navbar |-> "/", dashboard |-> "/dashboard", legacy |-> "/"]
    /\ logoutPending = [c \in LogoutClients |-> 0]
    /\ logoutSettled = [c \in LogoutClients |-> "none"]
    /\ sessionStorageSet = TRUE
    /\ localStorageSet = TRUE

\* The page that holds the logout control is still the loaded document.
PageLoaded(c) == logoutSettled[c] = "none"

\* The part of a logout handler before `await fetch`.
LogoutClick(c) ==
    /\ PageLoaded(c)
    /\ logoutPending[c] < MaxLogoutPending
    /\ logoutPending' = [logoutPending EXCEPT ![c] = @ + 1]
    /\ UNCHANGED <<location, logoutSettled, sessionStorageSet, localStorageSet,
                   dashVars, authVars, renderVars, legacyVars>>

\* window.location.href = ... : the document is replaced, and with it the
\* continuations of the requests it still had in flight.
NavigateTo(c, outcome, href) ==
    /\ location' = [location EXCEPT ![c] = href]
    /\ logoutPending' = [logoutPending EXCEPT ![c] = 0]
    /\ logoutSettled' = [logoutSettled EXCEPT ![c] = outcome]

\* Navbar.handleLogoutClick: try { await fetch; href = '/' } catch { href = '/' }
NavbarLogoutHref(outcome) == "/"

handleLogoutClick == LogoutClick("navbar")

handleLogoutClickSettled(outcome) ==
    /\ PageLoaded("navbar")
    /\ logoutPending["navbar"] > 0
    /\ NavigateTo("navbar", outcome, NavbarLogoutHref(outcome))
    /\ UNCHANGED <<sessionStorageSet, localStorageSet, dashVars, authVars, renderVars, legacyVars>>

\* Dashboard.handleLogout: try { await fetch; href = '/' } catch { href = '/' }
DashboardLogoutHref(outcome) == "/"

handleLogout == LogoutClick("dashboard")

handleLogoutSettled(outcome) ==
    /\ PageLoaded("dashboard")
    /\ logoutPending["dashboard"] > 0
    /\ NavigateTo("dashboard", outcome, DashboardLogoutHref(outcome))
    /\ UNCHANGED <<sessionStorageSet, localStorageSet, dashVars, authVars, renderVars, legacyVars>>

\* Mutant of LegacyLogoutHref: only a 2xx response leaves the page.
LegacyLogoutHref_OkOnly(outcome) == IF outcome = "ok" THEN "/login" ELSE "/"

\* script.js logout: every branch assigns window.location.href = '/login'.
LegacyLogoutHref(outcome) == "/login"

logout == LogoutClick("legacy")

\* sessionStorage.clear() in every branch, localStorage.clear() on response.ok only.
logoutSettledLegacy(outcome) ==
    /\ PageLoaded("legacy")
    /\ logoutPending["legacy"] > 0
    /\ sessionStorageSet' = FALSE
    /\ localStorageSet' = IF outcome = "ok" THEN FALSE ELSE localStorageSet
    /\ NavigateTo("legacy", outcome, LegacyLogoutHref(outcome))
    /\ UNCHANGED <<dashVars, authVars, renderVars, legacyVars>>

LogoutNext ==
    \/ handleLogoutClick
    \/ \E outcome \in LogoutOutcomes : handleLogoutClickSettled(outcome)
    \/ handleLogout
    \/ \E outcome \in LogoutOutcomes : handleLogoutSettled(outcome)
    \/ logout
    \/ \E outcome \in LogoutOutcomes : logoutSettledLegacy(outcome)

----------------------------------------------------------------------------
(* Result panels: QualityResults, BugResults, DocsResults, SecurityResults *)

\* results.issues.slice(0, 10) in QualityResults, results.bugs.slice(0, 10)
\* in BugResults.
MaxIssuesShown == 10

\* .substring(0, 800) in DocsResults.
PreviewLength == 800

Min(a, b) == IF a < b THEN a ELSE b

\* Mutant of Slice: the last element of the range is left out.
Slice_OffByOne(list, start, end) == SubSeq(list, start + 1, Min(end, Len(list)) - 1)

\* Array.prototype.slice(start, end) and String.prototype.substring(start, end)
\* for 0 <= start <= end: the elements at the indexes start .. end - 1 that exist.
Slice(list, start, end) == SubSeq(list, start + 1, Min(end, Len(list)))

\* The literal that follows the preview inside <pre>.
Ellipsis == <<".", ".", ".">>

\* Issues as the backend may list them: n entries, in either order of line.
Issue(i) ==
    [message |-> i, line |-> (i * 7) % 11,
     severity |-> IF i % 3 = 0 THEN "high" ELSE IF i % 3 = 1 THEN "medium" ELSE "low"]

IssueCounts == {0, 1, 9, 10, 11, 12}

IssueLists ==
    {[i \in 1..n |-> Issue(i)] : n \in IssueCounts}
    \cup {[i \in 1..n |-> Issue(n + 1 - i)] : n \in IssueCounts}

\* Documentation texts: n characters that differ from position to position.
Chars == <<"a", "b", "c", "d", "e", "f", "g">>

DocText(n, shift) == [i \in 1..n |-> Chars[((i + shift) % 7) + 1]]

EnglishDocs == {DocText(n, 0) : n \in {0, 3, 800, 801, 803}}

UrduDocs == {DocText(n, 3) : n \in {0, 802}}

\* The results prop of each panel; a field the backend left out is absent.
QualityPayloads == {[tag |-> "quality"]} \cup {[tag |-> "quality", issues |-> l] : l \in IssueLists}

BugPayloads == {[tag |-> "bugs"]} \cup {[tag |-> "bugs", bugs |-> l] : l \in IssueLists}

SecurityPayloads ==
    {[tag |-> "security"], SecurityPayload}
    \cup {[tag |-> "security", issues |-> l] : l \in IssueLists}

DocsPayloads ==
    {[tag |-> "docs"]}
    \cup {[tag |-> "docs", documentation_english |-> e] : e \in EnglishDocs}
    \cup {[tag |-> "docs", documentation_english |-> e, documentation_urdu |-> u] :
            e \in EnglishDocs, u \in UrduDocs}

\* results.f && results.f.length > 0 ? results.f : nothing
ListOf(res, f) == IF f \in DOMAIN res THEN res[f] ELSE << >>

\* A string field as a condition: absent and empty are falsy.
HasText(res, f) == f \in DOMAIN res /\ res[f] # << >>

\* language === 'ur' && results.documentation_urdu ? results.documentation_urdu
\*                                                 : results.documentation_english
SelectedDoc(res, lang) ==
    IF lang = "ur" /\ HasText(res, "documentation_urdu")
    THEN res.documentation_urdu
    ELSE res.documentation_english

NothingDisplayed == [rows |-> << >>, block |-> FALSE, text |-> << >>]

RenderInit ==
    /\ panelProps = [kind |-> Null, results |-> [tag |-> Null], language |-> "en"]
    /\ displayed = NothingDisplayed
    /\ clipboard = << >>

\* QualityResults: the issue rows.
QualityResults(res) ==
    /\ panelProps' = [kind |-> "quality", results |-> res, language |-> panelProps.language]
    /\ displayed' = [NothingDisplayed EXCEPT
                        !.rows = Slice(ListOf(res, "issues"), 0, MaxIssuesShown)]
    /\ UNCHANGED <<clipboard, dashVars, authVars, logoutVars, legacyVars>>

\* BugResults: the bug rows.
BugResults(res) ==
    /\ panelProps' = [kind |-> "bugs", results |-> res, language |-> panelProps.language]
    /\ displayed' = [NothingDisplayed EXCEPT
                        !.rows = Slice(ListOf(res, "bugs"), 0, MaxIssuesShown)]
    /\ UNCHANGED <<clipboard, dashVars, authVars, logoutVars, legacyVars>>

\* SecurityResults: results.issues.map(...), every issue.
SecurityResults(res) ==
    /\ panelProps' = [kind |-> "security", results |-> res, language |-> panelProps.language]
    /\ displayed' = [NothingDisplayed EXCEPT !.rows = ListOf(res, "issues")]
    /\ UNCHANGED <<clipboard, dashVars, authVars, logoutVars, legacyVars>>

\* DocsResults: the code block exists when documentation_english is truthy.
DocsResults(res, lang) ==
    /\ panelProps' = [kind |-> "docs", results |-> res, language |-> lang]
    /\ displayed' =
          IF HasText(res, "documentation_english")
          THEN [NothingDisplayed EXCEPT
                   !.block = TRUE,
                   !.text = Slice(SelectedDoc(res, lang), 0, PreviewLength) \o Ellipsis]
          ELSE NothingDisplayed
    /\ UNCHANGED <<clipboard, dashVars, authVars, logoutVars, legacyVars>>

\* onClick of the copy button of the rendered docs panel.
CopyDocs ==
    /\ panelProps.kind = "docs"
    /\ displayed.block
    /\ clipboard' = SelectedDoc(panelProps.results, panelProps.language)
    /\ UNCHANGED <<panelProps, displayed, dashVars, authVars, logoutVars, legacyVars>>

RenderNext ==
    \/ \E res \in QualityPayloads : QualityResults(res)
    \/ \E res \in BugPayloads : BugResults(res)
    \/ \E res \in SecurityPayloads : SecurityResults(res)
    \/ \E res \in DocsPayloads, lang \in Languages : DocsResults(res, lang)
    \/ CopyDocs

----------------------------------------------------------------------------
(* Legacy dashboard: script.js initDashboard *)

\* const maxSize = 10 * 1024 * 1024
MaxSize == 10 * 1024 * 1024

\* Files the user may choose, by name and size in bytes.
LegacyFiles ==
    {[name |-> "a.py", size |-> 1024], [name |-> "b.py", size |-> MaxSize],
     [name |-> "c.py", size |-> MaxSize + 1]}

DefaultLabel == "Choose file or drag here"

\* let currentReport = null
NoReport == [id |-> 0]

\* payload.report of a body without that field.
UndefinedReport == [id |-> -1]

\* A download link the page has not shown yet.
HiddenLink ==
    [display |-> "none", href |-> [path |-> Null, file |-> [kind |-> Null, id |-> 0]]]

NoPayload == [tag |-> "none"]

\* Cap on the number of POST /analyze requests sent.
MaxAnalyses == 2

\* Cap on the number of POST /analyze requests in flight.
MaxAnalyzePending == 2

\* Cap on the number of runs of the translate handler.
MaxTranslations == 2

\* Outcomes of `await fetch("/analyze")`: 200, 401, another status, a rejection.
AnalyzeOutcomes == {"ok", "unauthorized", "notOk", "networkError"}

\* A text on screen: where it comes from, of which analysis, and whether it
\* is the Urdu translation.
ReportText(field, n) == [src |-> field, id |-> n, urdu |-> FALSE]

\* An element without text.
NoText == ReportText("", 0)

\* "[no bug report]" and "[no corrected code]"
NoBugReport == ReportText("[no bug report]", 0)

NoCorrectedCode == ReportText("[no corrected code]", 0)

\* The two text fields of a report.
TextFields == {"bug_report", "corrected_code"}

\* report.scores of the n-th analysis, with or without the Gemini scores.
Scores(n, gemini) ==
    IF gemini THEN [overall |-> 10 * n, gemini_quality_score |-> 10 * n + 1]
    ELSE [overall |-> 10 * n]

\* Names the backend gives the report files of the n-th analysis.
ReportFile(n) == [kind |-> "json", id |-> n]

PdfFile(n) == [kind |-> "pdf", id |-> n]

\* A complete report; bug_report and corrected_code may each be absent.
Report(n, gemini, texts) ==
    [f \in {"id", "scores"} \cup texts |->
        CASE f = "id" -> n
          [] f = "scores" -> Scores(n, gemini)
          [] OTHER -> ReportText(f, n)]

\* Bodies with a complete report; report_file and pdf_file may each be absent.
ReportBody(n, gemini, hasJson, hasPdf, texts) ==
    [f \in {"tag", "report"} \cup (IF hasJson THEN {"report_file"} ELSE {})
                             \cup (IF hasPdf THEN {"pdf_file"} ELSE {}) |->
        CASE f = "tag" -> "object"
          [] f = "report" -> Report(n, gemini, texts)
          [] f = "report_file" -> ReportFile(n)
          [] f = "pdf_file" -> PdfFile(n)]

\* JSON bodies of a 200 response to the n-th analysis: an error, no report,
\* a report without scores, or a complete report with both files, with one of
\* them or with none.
AnalyzeBodies(n) ==
    {[tag |-> "object", error |-> "Unsupported file"],
     [tag |-> "object"],
     [tag |-> "object", report |-> [id |-> n]]}
    \cup {ReportBody(n, TRUE, TRUE, TRUE, TextFields),
          ReportBody(n, FALSE, TRUE, FALSE, TextFields),
          ReportBody(n, FALSE, FALSE, TRUE, TextFields),
          ReportBody(n, FALSE, FALSE, FALSE, TextFields)}

\* Responses to /analyze that differ in the texts of the report: no report, a
\* report without scores, and complete reports with and without each text.
TextBodies(n) ==
    {[tag |-> "object"], [tag |-> "object", report |-> [id |-> n]]}
    \cup {ReportBody(n, FALSE, TRUE, TRUE, t) : t \in SUBSET TextFields}

\* Outcomes of `await fetch('/translate_to_urdu')`.
TranslateOutcomes == {"ok", "notOk", "networkError"}

\* The Urdu translation of a text.
Urdu(text) == [text EXCEPT !.urdu = TRUE]

\* JSON bodies of a 200 response to a translation of `text`: with the
\* translation, or without translated_text.
TranslateBodies(text) ==
    {[tag |-> "object", translated_text |-> Urdu(text)], [tag |-> "object"]}

\* The translate button between two translations.
TranslateLabel == [disabled |-> FALSE, text |-> "Translate to Urdu"]

LegacyInit ==
    /\ fileInput = NoFile
    /\ fileLabel = DefaultLabel
    /\ analyzeBtnDisabled = FALSE
    /\ errorMsg = [display |-> "none", text |-> << >>]
    /\ resultsArea = "none"
    /\ welcomeState = "flex"
    /\ geminiMetrics = "none"
    /\ stats = NoReport
    /\ bugReportPre = NoText
    /\ correctedCodePre = NoText
    /\ currentReport = NoReport
    /\ downloadReport = HiddenLink
    /\ downloadPdf = HiddenLink
    /\ isLoggedIn = TRUE
    /\ analyzePending = << >>
    /\ analyzeCount = 0
    /\ lastSuccess = NoPayload
    /\ translateBtn = TranslateLabel
    /\ translatePending = << >>
    /\ translateTimers = 0
    /\ translateCount = 0
    /\ translateSent = {}
    /\ resetAt = 0

\* What the upload form, the reset button and the /analyze responses work on,
\* the error message and the two report texts apart.
uploadVars == <<fileInput, fileLabel, analyzeBtnDisabled, resultsArea, welcomeState,
                geminiMetrics, stats, currentReport, downloadReport, downloadPdf,
                isLoggedIn, analyzePending, analyzeCount, lastSuccess, resetAt>>

\* What the translate handler works on, the error message and the two report
\* texts apart.
translateVars == <<translateBtn, translatePending, translateTimers, translateCount,
                   translateSent>>

\* The dashboard document is the one loaded in the legacy window.
DashboardLoaded == location["legacy"] = "/"

\* showError(message)
showError(message) == [display |-> "block", text |-> message]

\* hideError(): the text stays, the element is hidden.
hideError == [errorMsg EXCEPT !.display = "none"]

\* fileInput "change": a file was chosen, or the dialog left the input empty.
fileInputChange(file) ==
    /\ DashboardLoaded
    /\ fileInput' = file
    /\ IF file # NoFile
       THEN fileLabel' = file.name /\ errorMsg' = hideError
       ELSE fileLabel' = DefaultLabel /\ UNCHANGED errorMsg
    /\ UNCHANGED <<analyzeBtnDisabled, resultsArea, welcomeState, geminiMetrics, stats,
                   bugReportPre, correctedCodePre, currentReport, downloadReport,
                   downloadPdf, isLoggedIn, analyzePending, analyzeCount, lastSuccess,
                   resetAt>>
    /\ UNCHANGED <<translateVars, dashVars, authVars, logoutVars, renderVars>>

\* resetBtn "click"
resetClick ==
    /\ DashboardLoaded
    /\ fileInput' = NoFile
    /\ fileLabel' = DefaultLabel
    /\ resultsArea' = "none"
    /\ welcomeState' = "flex"
    /\ geminiMetrics' = "none"
    /\ errorMsg' = hideError
    /\ stats' = NoReport
    /\ currentReport' = NoReport
    /\ analyzeBtnDisabled' = FALSE
    /\ resetAt' = analyzeCount
    /\ UNCHANGED <<bugReportPre, correctedCodePre, downloadReport, downloadPdf,
                   isLoggedIn, analyzePending, analyzeCount, lastSuccess>>
    /\ UNCHANGED <<translateVars, dashVars, authVars, logoutVars, renderVars>>

\* Mutant of uploadSubmit: the size of the file is not checked.
uploadSubmit_NoSizeCheck ==
    /\ DashboardLoaded
    /\ analyzeCount < MaxAnalyses
    /\ Len(analyzePending) < MaxAnalyzePending
    /\ IF analyzeBtnDisabled
       THEN UNCHANGED <<errorMsg, analyzeBtnDisabled, analyzePending, analyzeCount>>
       ELSE IF fileInput = NoFile
       THEN /\ errorMsg' = showError(<<"Please select a file first.">>)
            /\ UNCHANGED <<analyzeBtnDisabled, analyzePending, analyzeCount>>
       ELSE /\ errorMsg' = hideError
            /\ analyzeBtnDisabled' = TRUE
            /\ analyzePending' = Append(analyzePending,
                                        [id |-> analyzeCount + 1, file |-> fileInput,
                                         phase |-> "fetch"])
            /\ analyzeCount' = analyzeCount + 1
    /\ UNCHANGED <<fileInput, fileLabel, resultsArea, welcomeState, geminiMetrics, stats,
                   bugReportPre, correctedCodePre, currentReport, downloadReport,
                   downloadPdf, isLoggedIn, lastSuccess, resetAt>>
    /\ UNCHANGED <<translateVars, dashVars, authVars, logoutVars, renderVars>>

\* uploadForm "submit", up to `await fetch`; a disabled button submits nothing.
uploadSubmit ==
    /\ DashboardLoaded
    /\ analyzeCount < MaxAnalyses
    /\ Len(analyzePending) < MaxAnalyzePending
    /\ IF analyzeBtnDisabled
       THEN UNCHANGED <<errorMsg, analyzeBtnDisabled, analyzePending, analyzeCount>>
       ELSE IF fileInput = NoFile
       THEN /\ errorMsg' = showError(<<"Please select a file first.">>)
            /\ UNCHANGED <<analyzeBtnDisabled, analyzePending, analyzeCount>>
       ELSE IF fileInput.size > MaxSize
       THEN /\ errorMsg' = showError(<<"File size too large. Maximum 10MB allowed.">>)
            /\ UNCHANGED <<analyzeBtnDisabled, analyzePending, analyzeCount>>
       ELSE /\ errorMsg' = hideError
            /\ analyzeBtnDisabled' = TRUE
            /\ analyzePending' = Append(analyzePending,
                                        [id |-> analyzeCount + 1, file |-> fileInput,
                                         phase |-> "fetch"])
            /\ analyzeCount' = analyzeCount + 1
    /\ UNCHANGED <<fileInput, fileLabel, resultsArea, welcomeState, geminiMetrics, stats,
                   bugReportPre, correctedCodePre, currentReport, downloadReport,
                   downloadPdf, isLoggedIn, lastSuccess, resetAt>>
    /\ UNCHANGED <<translateVars, dashVars, authVars, logoutVars, renderVars>>

\* catch { showError(`Analysis failed: ${error.message}`) } finally { setLoadingState(false) }
analyzeCatch(i, message) ==
    /\ errorMsg' = showError(<<"Analysis failed: ", message>>)
    /\ analyzeBtnDisabled' = FALSE
    /\ analyzePending' = RemoveAt(analyzePending, i)

\* Mutant of analyzeFetchSettled: no branch for 401, which is handled like
\* every other status that is not 2xx.
analyzeFetchSettled_NoAuthCheck(i, outcome) ==
    /\ DashboardLoaded
    /\ i \in 1..Len(analyzePending)
    /\ analyzePending[i].phase = "fetch"
    /\ CASE outcome = "ok" ->
              /\ analyzePending' = [analyzePending EXCEPT ![i].phase = "json"]
              /\ UNCHANGED <<errorMsg, analyzeBtnDisabled>>
         [] outcome = "unauthorized" ->
              analyzeCatch(i, "HTTP error! status: 401")
         [] outcome = "notOk" ->
              analyzeCatch(i, "HTTP error! status: 500")
         [] outcome = "networkError" ->
              analyzeCatch(i, "Failed to fetch")
    /\ UNCHANGED <<fileInput, fileLabel, resultsArea, welcomeState, geminiMetrics, stats,
                   bugReportPre, correctedCodePre, currentReport, downloadReport,
                   downloadPdf, analyzeCount, lastSuccess, resetAt, isLoggedIn>>
    /\ UNCHANGED <<translateVars, dashVars, authVars, logoutVars, renderVars>>

\* `await fetch("/analyze")` settles.  A 401 leaves the page, and with the
\* page the continuations of the other requests.
analyzeFetchSettled(i, outcome) ==
    /\ DashboardLoaded
    /\ i \in 1..Len(analyzePending)
    /\ analyzePending[i].phase = "fetch"
    /\ CASE outcome = "ok" ->
              /\ analyzePending' = [analyzePending EXCEPT ![i].phase = "json"]
              /\ UNCHANGED <<errorMsg, analyzeBtnDisabled, isLoggedIn, location>>
         [] outcome = "unauthorized" ->
              /\ isLoggedIn' = FALSE
              /\ location' = [location EXCEPT !["legacy"] = "/login"]
              /\ analyzeBtnDisabled' = FALSE
              /\ analyzePending' = << >>
              /\ UNCHANGED errorMsg
         [] outcome = "notOk" ->
              /\ analyzeCatch(i, "HTTP error! status: 500")
              /\ UNCHANGED <<isLoggedIn, location>>
         [] outcome = "networkError" ->
              /\ analyzeCatch(i, "Failed to fetch")
              /\ UNCHANGED <<isLoggedIn, location>>
    /\ UNCHANGED <<fileInput, fileLabel, resultsArea, welcomeState, geminiMetrics, stats,
                   bugReportPre, correctedCodePre, currentReport, downloadReport,
                   downloadPdf, analyzeCount, lastSuccess, resetAt>>
    /\ UNCHANGED <<logoutPending, logoutSettled, sessionStorageSet, localStorageSet>>
    /\ UNCHANGED <<translateVars, dashVars, authVars, renderVars>>

\* payload.report
ReportOf(body) == IF "report" \in DOMAIN body THEN body.report ELSE UndefinedReport

\* report.scores.overall can be read: the report and its scores exist.
HasScores(report) == "scores" \in DOMAIN report

\* s.gemini_quality_score || s.maintainability_score || ...
HasGeminiScores(report) == "gemini_quality_score" \in DOMAIN report.scores

\* report.F || placeholder
TextOr(report, field, placeholder) ==
    IF field \in DOMAIN report THEN report[field] ELSE placeholder

\* if (payload.F && link) { link.href = `path${payload.F}`; show(link) }
LinkAfter(link, body, field, path) ==
    IF field \in DOMAIN body
    THEN [display |-> "inline-flex", href |-> [path |-> path, file |-> body[field]]]
    ELSE link

\* The try block after `await response.json()` for a body without an error.
displayReport(i, body) ==
    /\ currentReport' = ReportOf(body)
    /\ welcomeState' = "none"
    /\ resultsArea' = "block"
    /\ IF HasScores(ReportOf(body))
       THEN /\ stats' = ReportOf(body)
            /\ geminiMetrics' = IF HasGeminiScores(ReportOf(body)) THEN "block" ELSE "none"
            /\ bugReportPre' = TextOr(ReportOf(body), "bug_report", NoBugReport)
            /\ correctedCodePre' = TextOr(ReportOf(body), "corrected_code", NoCorrectedCode)
            /\ downloadReport' = LinkAfter(downloadReport, body, "report_file", "/download/")
            /\ downloadPdf' = LinkAfter(downloadPdf, body, "pdf_file", "/download_pdf/")
            /\ lastSuccess' = body
            /\ analyzeBtnDisabled' = FALSE
            /\ analyzePending' = RemoveAt(analyzePending, i)
            /\ UNCHANGED errorMsg
       ELSE /\ analyzeCatch(i, "Cannot read properties of undefined")
            /\ UNCHANGED <<stats, geminiMetrics, bugReportPre, correctedCodePre,
                           downloadReport, downloadPdf, lastSuccess>>

\* `await response.json()` settles.
analyzeJsonSettled(i, body) ==
    /\ DashboardLoaded
    /\ i \in 1..Len(analyzePending)
    /\ analyzePending[i].phase = "json"
    /\ body \in AnalyzeBodies(analyzePending[i].id)
                \cup TextBodies(analyzePending[i].id) \cup {Malformed}
    /\ IF body = Malformed
       THEN /\ analyzeCatch(i, "Unexpected token")
            /\ UNCHANGED <<currentReport, welcomeState, resultsArea, stats, geminiMetrics,
                           bugReportPre, correctedCodePre, downloadReport, downloadPdf,
                           lastSuccess>>
       ELSE IF "error" \in DOMAIN body
       THEN /\ analyzeCatch(i, body.error)
            /\ UNCHANGED <<currentReport, welcomeState, resultsArea, stats, geminiMetrics,
                           bugReportPre, correctedCodePre, downloadReport, downloadPdf,
                           lastSuccess>>
       ELSE displayReport(i, body)
    /\ UNCHANGED <<fileInput, fileLabel, isLoggedIn, analyzeCount, resetAt>>
    /\ UNCHANGED <<translateVars, dashVars, authVars, logoutVars, renderVars>>

\* if (!currentReport): null and undefined are falsy, every report object is not.
HasReport == currentReport \notin {NoReport, UndefinedReport}

\* element.textContent && element.textContent !== placeholder
Translatable(text, placeholder) == text # NoText /\ text # placeholder

\* The call translateToUrdu(text), up to its `await fetch`.
TranslateRequest(element, text) ==
    [element |-> element, text |-> text, phase |-> "fetch"]

\* The translate handler from "Translate corrected code" on, for the runs
\* `rest` still waiting and the button `btn`: another request, or
\* '✅ Translated!' and the timer that restores the button.
translateCorrectedCode(rest, btn) ==
    IF Translatable(correctedCodePre, NoCorrectedCode)
    THEN /\ translatePending' =
                Append(rest, TranslateRequest("correctedCodePre", correctedCodePre))
         /\ translateSent' = translateSent \cup {correctedCodePre}
         /\ translateBtn' = btn
         /\ UNCHANGED translateTimers
    ELSE /\ translatePending' = rest
         /\ translateBtn' = [btn EXCEPT !.text = "Translated!"]
         /\ translateTimers' = translateTimers + 1
         /\ UNCHANGED translateSent

\* translateBtn "click", up to the first `await`; a disabled button does
\* nothing.  translateToUrdu catches every error of its own, so the catch
\* block of the handler is never entered.
translateClick ==
    /\ DashboardLoaded
    /\ translateCount < MaxTranslations
    /\ IF translateBtn.disabled
       THEN UNCHANGED <<errorMsg, translateVars>>
       ELSE IF ~HasReport
       THEN /\ errorMsg' = showError(<<"No report available to translate">>)
            /\ UNCHANGED translateVars
       ELSE /\ translateCount' = translateCount + 1
            /\ UNCHANGED errorMsg
            /\ IF Translatable(bugReportPre, NoBugReport)
               THEN /\ translatePending' =
                           Append(translatePending,
                                  TranslateRequest("bugReportPre", bugReportPre))
                    /\ translateSent' = translateSent \cup {bugReportPre}
                    /\ translateBtn' = [disabled |-> TRUE, text |-> "Translating..."]
                    /\ UNCHANGED translateTimers
               ELSE translateCorrectedCode(translatePending,
                                           [disabled |-> TRUE, text |-> "Translating..."])
    /\ UNCHANGED <<bugReportPre, correctedCodePre, uploadVars>>
    /\ UNCHANGED <<dashVars, authVars, logoutVars, renderVars>>

\* translateToUrdu returned `result` to the handler, which writes it to the
\* element it translated and goes on.
translateSettled(i, result) ==
    IF translatePending[i].element = "bugReportPre"
    THEN /\ bugReportPre' = result
         /\ UNCHANGED correctedCodePre
         /\ translateCorrectedCode(RemoveAt(translatePending, i), translateBtn)
    ELSE /\ correctedCodePre' = result
         /\ UNCHANGED <<bugReportPre, translateSent>>
         /\ translatePending' = RemoveAt(translatePending, i)
         /\ translateBtn' = [translateBtn EXCEPT !.text = "Translated!"]
         /\ translateTimers' = translateTimers + 1

\* catch { showError('Translation failed. Please try again.'); return text }
translateCatch(i) ==
    /\ errorMsg' = showError(<<"Translation failed. Please try again.">>)
    /\ translateSettled(i, translatePending[i].text)

\* `await fetch('/translate_to_urdu')` settles.
translateFetchSettled(i, outcome) ==
    /\ DashboardLoaded
    /\ i \in 1..Len(translatePending)
    /\ translatePending[i].phase = "fetch"
    /\ IF outcome = "ok"
       THEN /\ translatePending' = [translatePending EXCEPT ![i].phase = "json"]
            /\ UNCHANGED <<errorMsg, bugReportPre, correctedCodePre, translateBtn,
                           translateTimers, translateSent>>
       ELSE translateCatch(i)
    /\ UNCHANGED <<translateCount, uploadVars>>
    /\ UNCHANGED <<dashVars, authVars, logoutVars, renderVars>>

\* `await response.json()` of translateToUrdu settles:
\* return data.translated_text || text
translateJsonSettled(i, body) ==
    /\ DashboardLoaded
    /\ i \in 1..Len(translatePending)
    /\ translatePending[i].phase = "json"
    /\ body \in TranslateBodies(translatePending[i].text) \cup {Malformed}
    /\ IF body = Malformed
       THEN translateCatch(i)
       ELSE /\ translateSettled(i, IF "translated_text" \in DOMAIN body
                                   THEN body.translated_text
                                   ELSE translatePending[i].text)
            /\ UNCHANGED errorMsg
    /\ UNCHANGED <<translateCount, uploadVars>>
    /\ UNCHANGED <<dashVars, authVars, logoutVars, renderVars>>

\* The setTimeout callback, 2000 ms after '✅ Translated!'.
translateTimerFires ==
    /\ DashboardLoaded
    /\ translateTimers > 0
    /\ translateTimers' = translateTimers - 1
    /\ translateBtn' = TranslateLabel
    /\ UNCHANGED <<translatePending, translateCount, translateSent>>
    /\ UNCHANGED <<errorMsg, bugReportPre, correctedCodePre, uploadVars>>
    /\ UNCHANGED <<dashVars, authVars, logoutVars, renderVars>>

\* The texts a translation can come back with.
TranslateTexts ==
    {t \in [src : TextFields, id : 1..MaxAnalyses, urdu : BOOLEAN] : TRUE}

LegacyNext ==
    \/ \E file \in LegacyFiles \cup {NoFile} : fileInputChange(file)
    \/ resetClick
    \/ uploadSubmit
    \/ \E i \in 1..MaxAnalyzePending, outcome \in AnalyzeOutcomes :
            analyzeFetchSettled(i, outcome)
    \/ \E i \in 1..MaxAnalyzePending, n \in 1..MaxAnalyses :
          \E body \in AnalyzeBodies(n) \cup {Malformed} : analyzeJsonSettled(i, body)

\* The translate button next to the analyses that give it its texts.
TranslateNext ==
    \/ \E file \in {f \in LegacyFiles : f.size < MaxSize} : fileInputChange(file)
    \/ resetClick
    \/ uploadSubmit
    \/ \E i \in 1..MaxAnalyzePending : analyzeFetchSettled(i, "ok")
    \/ \E i \in 1..MaxAnalyzePending, n \in 1..MaxAnalyses :
          \E body \in TextBodies(n) : analyzeJsonSettled(i, body)
    \/ translateClick
    \/ \E i \in 1..MaxTranslations, outcome \in TranslateOutcomes :
            translateFetchSettled(i, outcome)
    \/ \E i \in 1..MaxTranslations, text \in TranslateTexts :
          \E body \in TranslateBodies(text) \cup {Malformed} : translateJsonSettled(i, body)
    \/ translateTimerFires

----------------------------------------------------------------------------
(* Specifications: one per page *)

\* The state in which every page has just been loaded.
Init == DashInit /\ AuthInit /\ LogoutInit /\ RenderInit /\ LegacyInit

\* The React dashboard, from mount to page unload.
DashSpec == Init /\ [][DashNext]_vars

\* The dashboard when every response arrives and every timer fires.
DashLiveSpec ==
    /\ Init
    /\ [][DashNext]_vars
    /\ WF_vars(\E i \in 1..MaxPending, outcome \in FetchOutcomes : FetchSettled(i, outcome))
    /\ WF_vars(\E i \in 1..MaxPending, body \in ResponseBodies : JsonSettled(i, body))
    /\ WF_vars(\E i \in 1..MaxPending : SecurityTimeout(i))

\* The auth page and App's identity.
AuthSpec == Init /\ [][AuthNext]_vars

\* The auth page when every timer fires.
AuthLiveSpec == Init /\ [][AuthNext]_vars /\ WF_vars(RedirectFires)

\* The three logout handlers.
LogoutSpec == Init /\ [][LogoutNext]_vars

\* The legacy dashboard, from page load to the navigation away from it.
LegacySpec == Init /\ [][LegacyNext]_vars

\* The translate button of the legacy dashboard.
TranslateSpec == Init /\ [][TranslateNext]_vars

\* The result panels applied to backend payloads.
RenderSpec == Init /\ [][RenderNext]_vars

\* The upload/input handler with two files, whose reads may complete in
\* either order, and the analyses that send what was read.
UploadNext ==
    \/ \E text \in CodeTexts : EditCode(text)
    \/ \E file \in Files : handleFileUpload(file)
    \/ \E file \in Files : readerOnload(file)
    \/ ClickAnalyze("quality")
    \/ \E i \in 1..MaxPending, outcome \in FetchOutcomes : FetchSettled(i, outcome)
    \/ \E i \in 1..MaxPending, body \in ResponseBodies : JsonSettled(i, body)

UploadSpec == Init /\ [][UploadNext]_vars

\* The three analyses that send a file, with two files to select from and
\* the editor to type into.
PayloadNext ==
    \/ \E text \in CodeTexts : EditCode(text)
    \/ \E file \in Files : handleFileUpload(file)
    \/ \E file \in Files : readerOnload(file)
    \/ \E kind \in FetchKinds : ClickAnalyze(kind)
    \/ \E i \in 1..MaxPending, outcome \in FetchOutcomes : FetchSettled(i, outcome)
    \/ \E i \in 1..MaxPending, body \in ResponseBodies : JsonSettled(i, body)

PayloadSpec == Init /\ [][PayloadNext]_vars

\* Response bodies of the runs that count requests: one per branch of
\* handleSubmit (rejected json(), success, failure).
RequestAuthBodies ==
    {Malformed, AuthBody({"success"}, TRUE), AuthBody({"success", "error"}, FALSE)}

\* The steps of the dashboard and of the auth page that send a request or
\* complete one, with the input events that enable them.
RequestNext ==
    \/ \E text \in CodeTexts : EditCode(text)
    \/ \E kind \in FetchKinds : ClickAnalyze(kind)
    \/ ClickSecurity
    \/ \E i \in 1..MaxPending, outcome \in FetchOutcomes : FetchSettled(i, outcome)
    \/ \E i \in 1..MaxPending, body \in ResponseBodies : JsonSettled(i, body)
    \/ \E i \in 1..MaxPending : SecurityTimeout(i)
    \/ \E field \in {"email", "password"}, value \in {"a@b.com", "x"} :
            handleInputChange(field, value)
    \/ handleSubmit
    \/ \E i \in 1..MaxAuthPending, outcome \in FetchOutcomes : AuthFetchSettled(i, outcome)
    \/ \E i \in 1..MaxAuthPending, body \in RequestAuthBodies : AuthJsonSettled(i, body)

\* The dashboard and the auth page together, as far as requests go.
RequestSpec == Init /\ [][RequestNext]_vars

----------------------------------------------------------------------------
(* Properties of the React dashboard *)

\* The click handler of the action button of a kind.
ClickOf(kind) == IF kind = "security" THEN ClickSecurity ELSE ClickAnalyze(kind)

\* C1: at most one analysis (fetch request or security timer) is in flight in
\* every reachable state; the busy flag is set exactly while one is in flight,
\* so a click during an analysis starts nothing and the buttons accept clicks
\* again only once it has resolved.
C1_AtMostOneInFlight ==
    /\ InFlight <= 1
    /\ isAnalyzing <=> InFlight = 1

\* A second analysis is in flight after the first one has resolved.
C1_Witness == InFlight = 1 /\ isAnalyzing /\ accepted = 2 /\ DOMAIN results # {}

\* C2: a click on any of the four action buttons while the code input is empty
\* or blank issues no request, starts no timer, leaves the busy flag false and
\* the active kind none, leaves the result store and the expanded set as they
\* were, and raises the 'no code' alert only.
C2_EmptyCodeStartsNothing ==
    [][\A kind \in Kinds :
          (~isAnalyzing /\ (\A j \in 1..Len(codeInput) : codeInput[j] = " ") /\ ClickOf(kind))
          => /\ pending' = pending
             /\ timers' = timers
             /\ isAnalyzing' = FALSE
             /\ activeAnalysis' = Null
             /\ results' = results
             /\ expandedSections' = expandedSections
             /\ alertShown' = [lang |-> language, key |-> "noCodeError"]]_vars

\* The 'no code' alert was raised for a blank input while results exist.
C2_Witness ==
    /\ alertShown.key = "noCodeError"
    /\ codeInput = <<" ">>
    /\ InFlight = 0
    /\ DOMAIN results # {}

\* The step in which the analysis pending[i] succeeds with the given body.
SuccessStep(i, body) == body # Malformed /\ JsonSettled(i, body)

\* The step in which the analysis pending[i] fails.
FailureStep(i) ==
    \/ \E outcome \in FetchOutcomes \ {"ok"} : FetchSettled(i, outcome)
    \/ JsonSettled(i, Malformed)

\* C3: when an analysis of kind K succeeds, the entry of K in the result store
\* becomes the new payload and the entry of every other kind is what it was.
C3_SuccessOverwritesOnlyOwnKind ==
    [][/\ \A i \in 1..MaxPending, body \in ResponseBodies :
             SuccessStep(i, body)
             => /\ DOMAIN results' = DOMAIN results \cup {pending[i].kind}
                /\ results'[pending[i].kind] =
                       (IF "results" \in DOMAIN body THEN body.results ELSE Undefined)
                /\ \A k \in DOMAIN results \ {pending[i].kind} : results'[k] = results[k]
       /\ \A i \in 1..MaxPending :
             SecurityTimeout(i)
             => /\ DOMAIN results' = DOMAIN results \cup {"security"}
                /\ \A k \in DOMAIN results \ {"security"} : results'[k] = results[k]]_vars

\* Two kinds have an entry after two successful analyses.
C3_Witness ==
    /\ accepted = 2
    /\ InFlight = 0
    /\ Cardinality(DOMAIN results) = 2
    /\ \E k \in DOMAIN results : results[k] = [tag |-> "payload", id |-> "R2"]

\* C4: a failed analysis ends with the busy flag false and the active kind
\* none, and the result store is what it was when the analysis was dispatched:
\* no step taken while it is in flight, the failing step included, changes it.
C4_FailureReturnsToIdle ==
    [][/\ \A i \in 1..MaxPending :
             FailureStep(i)
             => /\ isAnalyzing' = FALSE
                /\ activeAnalysis' = Null
                /\ results' = results
                /\ expandedSections' = expandedSections
       /\ (InFlight > 0 /\ InFlight' > 0) => results' = results]_vars

\* An analysis has failed while the store held an earlier result.
C4_Witness ==
    /\ alertShown.key = "analysisError"
    /\ ~isAnalyzing
    /\ activeAnalysis = Null
    /\ DOMAIN results # {}

\* C5: a kind cycles idle -> dispatching -> (succeeded | failed) -> idle.  From
\* a dispatching state every step either keeps the same kind dispatching or is
\* its completion, which is no user action and returns the dashboard to idle;
\* and when responses arrive and timers fire, dispatching leads to idle.
C5_DispatchCycle ==
    /\ [][/\ (InFlight = 0 /\ InFlight' > 0)
             => (~isAnalyzing /\ isAnalyzing' /\ activeAnalysis' \in Kinds)
          /\ InFlight > 0
             => \/ /\ InFlight' = InFlight
                   /\ isAnalyzing' /\ activeAnalysis' = activeAnalysis
                   /\ Len(pending') = Len(pending)
                   /\ \A j \in 1..Len(pending) : pending'[j].kind = pending[j].kind
                \/ /\ InFlight' = 0
                   /\ ~isAnalyzing' /\ activeAnalysis' = Null
                   /\ UNCHANGED <<codeInput, uploadedFile, language, reads>>]_vars
    /\ (isAnalyzing ~> (~isAnalyzing /\ activeAnalysis = Null))

\* The user edited the code, changed the language and selected a file while
\* the json body of an analysis was still being read.
C5_Witness ==
    /\ InFlight = 1
    /\ isAnalyzing
    /\ pending # << >>
    /\ pending[1].phase = "json"
    /\ pending[1].code # getCodeToAnalyze
    /\ pending[1].language # language
    /\ pending[1].filename # PayloadFileName

\* C6 as stated: only the continuation of a network response writes the store.
C6_OnlyNetworkHandlersWrite ==
    [][results' # results => Len(pending') < Len(pending)]_vars

\* C6, amended: the result store is written only by the continuation of a
\* completed network response or by the timer callback of the security scan;
\* no user-event or file-reader handler writes it, and there are never two
\* pending writers.
C6_OnlyCompletionsWrite ==
    /\ [][results' # results
          => \/ Len(pending') < Len(pending) /\ timers' = timers
             \/ Len(timers') < Len(timers) /\ pending' = pending]_vars
    /\ [](Len(pending) + Len(timers) <= 1)

\* The security timer has written the store.
C6_Witness == "security" \in DOMAIN results /\ InFlight = 0

\* C7: the security kind never issues a network request; its timer always
\* succeeds and stores the same hardcoded payload, whatever the code input,
\* the language and the previous store.
C7_SecurityIsSimulated ==
    /\ [](/\ activeAnalysis = "security" => (pending = << >> /\ Len(timers) = 1)
          /\ "security" \in DOMAIN results
             => /\ results["security"].vulnerabilities = 2
                /\ results["security"].securityScore = 75
                /\ results["security"].issues =
                     << [severity |-> "high", type |-> "SQL Injection", line |-> 45,
                         description |-> "Unsanitized user input"],
                        [severity |-> "medium", type |-> "XSS Risk", line |-> 78,
                         description |-> "Unescaped output"] >>)
    /\ [][/\ ClickSecurity => pending' = pending
          /\ \A i \in 1..MaxPending :
                SecurityTimeout(i)
                => /\ "security" \in DOMAIN results'
                   /\ expandedSections'["security"]
                   /\ alertShown' = NoAlert
                   /\ ~isAnalyzing' /\ activeAnalysis' = Null]_vars

\* The security payload was stored after another kind, in Urdu, for file text.
C7_Witness ==
    /\ "security" \in DOMAIN results
    /\ Cardinality(DOMAIN results) = 2
    /\ language = "ur"
    /\ codeInput = <<"b">>

\* expanded ? ... : ... in ResultSection: an absent flag reads as collapsed.
Expanded(p, kind) == kind \in DOMAIN p /\ p[kind]

\* C12: toggling the panel of kind K inverts K's expanded flag and changes
\* nothing else: the result store, the other kinds' flags, the busy flag and
\* the active kind are what they were; a second toggle of K would bring K's
\* flag back to what it was before the first.
C12_ToggleChangesOnlyOwnFlag ==
    [][\A kind \in Kinds :
          TogglePanel(kind)
          => /\ results' = results
             /\ isAnalyzing' = isAnalyzing
             /\ activeAnalysis' = activeAnalysis
             /\ pending' = pending /\ timers' = timers
             /\ DOMAIN expandedSections' = DOMAIN expandedSections \cup {kind}
             /\ \A k \in DOMAIN expandedSections \ {kind} :
                    expandedSections'[k] = expandedSections[k]
             /\ Expanded(expandedSections', kind) = ~Expanded(expandedSections, kind)
             /\ PanelRendered(kind)'
             /\ Expanded(Spread(expandedSections', kind,
                                NotFlag(expandedSections', kind)), kind)
                  = Expanded(expandedSections, kind)]_vars

\* One panel is collapsed and another is expanded while both hold results.
C12_Witness ==
    /\ Cardinality(DOMAIN results) = 2
    /\ \E k1, k2 \in DOMAIN results :
          /\ PanelRendered(k1) /\ PanelRendered(k2)
          /\ ~expandedSections[k1] /\ expandedSections[k2]

\* C13: right after an analysis of kind K succeeds, the store holds the
\* returned payload under K and K's expanded flag is true, whether K had no
\* panel before or a collapsed one; the flags of the other kinds are unchanged.
C13_SuccessExpandsPanel ==
    [][/\ \A i \in 1..MaxPending, body \in ResponseBodies :
             SuccessStep(i, body)
             => /\ results'[pending[i].kind] =
                       (IF "results" \in DOMAIN body THEN body.results ELSE Undefined)
                /\ Expanded(expandedSections', pending[i].kind)
                /\ DOMAIN expandedSections' = DOMAIN expandedSections \cup {pending[i].kind}
                /\ \A k \in DOMAIN expandedSections \ {pending[i].kind} :
                       expandedSections'[k] = expandedSections[k]
       /\ \A i \in 1..MaxPending :
             SecurityTimeout(i)
             => /\ results'["security"] = SecurityPayload
                /\ Expanded(expandedSections', "security")
                /\ DOMAIN expandedSections' = DOMAIN expandedSections \cup {"security"}
                /\ \A k \in DOMAIN expandedSections \ {"security"} :
                       expandedSections'[k] = expandedSections[k]]_vars

\* The second analysis of the only kind present has succeeded with a new
\* payload and its panel is expanded.
C13_Witness ==
    /\ accepted = 2
    /\ InFlight = 0
    /\ DOMAIN results = {"quality"}
    /\ results["quality"] = [tag |-> "payload", id |-> "R2"]
    /\ Expanded(expandedSections, "quality")
    /\ alertShown = NoAlert

\* C14: the result store is accumulating: a kind whose panel is rendered keeps
\* a rendered panel in every later state, whatever analyses follow (failed,
\* successful, or answered by a 2xx body without a results field); its entry
\* changes only when an analysis of that kind completes.
C14_StoreAccumulates ==
    [][\A k \in Kinds :
          PanelRendered(k)
          => /\ PanelRendered(k)'
             /\ results'[k] # results[k]
                => \/ \E i \in 1..Len(pending) :
                         pending[i].kind = k /\ Len(pending') < Len(pending)
                   \/ k = "security" /\ Len(timers') < Len(timers)]_vars

\* C15: for the quality, bugs and docs kinds a non-2xx status, a body that
\* does not parse and a transport error have the same outcome: the alert is
\* the fixed analysis error of the language the click was made in and carries
\* nothing else, and the result store and the expanded set are not written.
C15_GenericAnalysisError ==
    [][\A i \in 1..MaxPending :
          FailureStep(i)
          => /\ pending[i].kind \in FetchKinds
             /\ alertShown' = [lang |-> pending[i].language, key |-> "analysisError"]
             /\ results' = results
             /\ expandedSections' = expandedSections
             /\ pending' = RemoveAt(pending, i)
             /\ ~isAnalyzing' /\ activeAnalysis' = Null
             /\ UNCHANGED <<codeInput, uploadedFile, language, timers, reads>>]_vars

\* An Urdu analysis error is on screen after the language was switched back
\* to English, and the earlier result is still expanded.
C15_Witness ==
    /\ alertShown = [lang |-> "ur", key |-> "analysisError"]
    /\ language = "en"
    /\ InFlight = 0
    /\ \E k \in DOMAIN results : PanelRendered(k) /\ expandedSections[k]

\* The step in which the response of a request or the security timer arrives
\* and ends the analysis.
CompletionStep ==
    \/ \E i \in 1..MaxPending : FailureStep(i)
    \/ \E i \in 1..MaxPending, body \in ResponseBodies : JsonSettled(i, body)
    \/ \E i \in 1..MaxPending : SecurityTimeout(i)

\* C16: there is no timeout and no cancellation: from a busy state, every step
\* other than the arrival of the awaited response (or the firing of the
\* security timer) leaves the busy flag true, the four buttons disabled, the
\* active kind and the analysis in flight as they were; so while the response
\* does not arrive the dashboard stays busy, whatever the user does.
C16_NoTimeout ==
    [][(isAnalyzing /\ ~CompletionStep)
       => /\ isAnalyzing'
          /\ ButtonDisabled'
          /\ activeAnalysis' = activeAnalysis
          /\ InFlight' = InFlight
          /\ accepted' = accepted
          /\ results' = results]_vars

\* A request is still awaiting its response after the user selected a file,
\* had it read into the editor and switched the language.
C16_Witness ==
    /\ isAnalyzing
    /\ Len(pending) = 1
    /\ pending[1].phase = "fetch"
    /\ uploadedFile # NoFile
    /\ reads = {}
    /\ codeInput = uploadedFile.text
    /\ pending[1].code # codeInput
    /\ pending[1].language # language

\* C17: once every read started by a sequence of file selections has
\* completed, and the editor was not typed into meanwhile, the code input is
\* the text of the file selected last, which is the file recorded as uploaded.
C17_LastFileWins ==
    (uploadedFile # NoFile /\ reads = {} /\ ~editedSinceUpload)
    => codeInput = uploadedFile.text

----------------------------------------------------------------------------
(* Properties of the auth page and of logout *)

\* The 2xx response to pending request i carries a true success flag.
AcceptedBody(i, body) ==
    /\ body # Malformed
    /\ authPending[i].ok
    /\ "success" \in DOMAIN body
    /\ body.success = TRUE

\* C8: a login or register submission establishes an identity if and only if
\* the response is 2xx and its body has a true success flag; the identity is
\* the email that was submitted with the role of the body, 'user' when the
\* body has none; a redirect is scheduled then and leads to the dashboard.
C8_IdentityIffAccepted ==
    /\ [][/\ (handleSubmit /\ authPending' # authPending)
             => /\ authPending'[Len(authPending')].email = formData.email
                /\ authPending'[Len(authPending')].payload.username = formData.email
          /\ \A i \in 1..MaxAuthPending, outcome \in FetchOutcomes :
                AuthFetchSettled(i, outcome) => (user' = user /\ redirects' = redirects)
          /\ \A i \in 1..MaxAuthPending, body \in AuthBodies \cup {Malformed} :
                AuthJsonSettled(i, body)
                => IF AcceptedBody(i, body)
                   THEN /\ user' = [username |-> authPending[i].email,
                                    role |-> IF "role" \in DOMAIN body THEN body.role
                                             ELSE "user"]
                        /\ redirects' = redirects + 1
                   ELSE user' = user /\ redirects' = redirects
          /\ RedirectFires => route' = "/dashboard"]_vars
    /\ (redirects > 0 ~> route = "/dashboard")

\* A registration succeeded without a role in the body, after the form was
\* edited while the request was in flight, and the redirect has happened.
C8_Witness ==
    /\ user = [username |-> "c@d.org", role |-> "user"]
    /\ formData.email = "a@b.com"
    /\ route = "/dashboard"
    /\ success = RegisterSuccessMsg

C10_LogoutAlwaysRedirects ==
    /\ \A c \in LogoutClients :
          /\ logoutSettled[c] # "none"
             => location[c] = (IF c = "legacy" THEN "/login" ELSE "/")
          /\ logoutPending[c] > 0 => logoutSettled[c] = "none"
    /\ logoutSettled["legacy"] # "none" => ~sessionStorageSet

\* Each client has been redirected, each after a different outcome.
C10_Witness ==
    /\ logoutSettled = [navbar |-> "ok", dashboard |-> "networkError", legacy |-> "notOk"]
    /\ location = [navbar |-> "/", dashboard |-> "/", legacy |-> "/login"]

\* C18: App's identity changes only when a login/register is accepted or when
\* the check-session body has authenticated = true, and then it becomes the
\* user of that body; a check-session that is rejected, unparsable or not
\* authenticated leaves the identity as it was; no outcome of the session
\* check schedules a redirect or changes the route.
C18_SessionCheckIdentity ==
    [][/\ user' # user
          => \/ \E i \in 1..Len(authPending), body \in AuthBodies :
                   AuthJsonSettled(i, body) /\ AcceptedBody(i, body)
             \/ \E body \in SessionBodies :
                   /\ SessionJsonSettled(body)
                   /\ "authenticated" \in DOMAIN body /\ body.authenticated = TRUE
       /\ \A outcome \in FetchOutcomes :
             SessionFetchSettled(outcome)
             => (user' = user /\ redirects' = redirects /\ route' = route)
       /\ \A body \in SessionBodies \cup {Malformed} :
             SessionJsonSettled(body)
             => /\ redirects' = redirects /\ route' = route
                /\ user' = (IF body = [authenticated |-> TRUE, user |-> SessionUser]
                            THEN [username |-> "a@b.com", role |-> "admin"]
                            ELSE IF body = [authenticated |-> TRUE] THEN NoUser
                            ELSE user)]_vars

\* The session check has answered 'authenticated' after a login with another
\* email was accepted: the identity is the session's user.
C18_Witness ==
    /\ sessionCheck = "done"
    /\ user = SessionUser
    /\ success = LoginSuccessMsg
    /\ formData.email = "c@d.org"
    /\ submits = 1
    /\ authPending = << >>

----------------------------------------------------------------------------
(* Properties of the requests sent *)

\* C11: on the dashboard and on the auth page the number of requests sent
\* never exceeds the number of accepted user actions (action clicks with
\* non-empty code, form submissions): an accepted action sends at most one
\* request, and the completion of a request, failed or not, sends none.
C11_NoMoreRequestsThanActions ==
    /\ [](requestsSent <= accepted /\ authRequestsSent <= submits)
    /\ [][/\ requestsSent' + authRequestsSent' <= requestsSent + authRequestsSent + 1
          /\ requestsSent' > requestsSent => accepted' = accepted + 1
          /\ authRequestsSent' > authRequestsSent => submits' = submits + 1
          /\ \A i \in 1..MaxPending : FailureStep(i) => requestsSent' = requestsSent
          /\ \A i \in 1..MaxAuthPending, body \in AuthBodies \cup {Malformed} :
                (AuthFetchSettled(i, "networkError") \/ AuthJsonSettled(i, body))
                => authRequestsSent' = authRequestsSent]_vars

\* Two analyses and two submissions have failed; four requests were sent.
C11_Witness ==
    /\ requestsSent = 2 /\ accepted = 2
    /\ authRequestsSent = 2 /\ submits = 2
    /\ InFlight = 0 /\ authPending = << >>
    /\ alertShown.key = "analysisError"
    /\ error = ConnectErrorMsg
    /\ user = NoUser

----------------------------------------------------------------------------
(* Properties of the result panels *)

\* C19: the quality and bugs panels show the first min(10, n) entries of the
\* backend's list, in the backend's order; the security panel shows every
\* issue in the backend's order; the documentation preview is the first 800
\* characters of the selected text (Urdu when the language is Urdu and an
\* Urdu text exists, English otherwise) followed by the ellipsis, and the
\* copy button copies the selected text in full.
C19_RenderTruncatesOnly ==
    /\ [](LET res == panelProps.results
              kind == panelProps.kind
              f == IF kind = "bugs" THEN "bugs" ELSE "issues"
              list == IF f \in DOMAIN res THEN res[f] ELSE << >>
              sel == IF /\ panelProps.language = "ur"
                        /\ "documentation_urdu" \in DOMAIN res
                        /\ res.documentation_urdu # << >>
                     THEN res.documentation_urdu
                     ELSE res.documentation_english
              shown == IF Len(sel) < 800 THEN Len(sel) ELSE 800
          IN  /\ kind \in {"quality", "bugs"}
                 => /\ Len(displayed.rows) = (IF Len(list) < 10 THEN Len(list) ELSE 10)
                    /\ \A j \in 1..Len(displayed.rows) : displayed.rows[j] = list[j]
              /\ kind = "security" => displayed.rows = list
              /\ (kind = "docs" /\ displayed.block)
                 => /\ Len(displayed.text) = shown + 3
                    /\ \A j \in 1..shown : displayed.text[j] = sel[j]
                    /\ \A j \in shown + 1..shown + 3 : displayed.text[j] = ".")
    /\ [][CopyDocs
          => LET res == panelProps.results
             IN  clipboard' =
                   (IF /\ panelProps.language = "ur"
                       /\ "documentation_urdu" \in DOMAIN res
                       /\ res.documentation_urdu # << >>
                    THEN res.documentation_urdu
                    ELSE res.documentation_english)]_vars

\* Twelve issues came in descending order and the first ten are shown in that
\* order, while the clipboard holds an Urdu text longer than the preview.
C19_Witness ==
    /\ panelProps.kind = "quality"
    /\ "issues" \in DOMAIN panelProps.results
    /\ Len(panelProps.results.issues) = 12
    /\ Len(displayed.rows) = 10
    /\ displayed.rows[1].message = 12
    /\ displayed.rows[10].message = 3
    /\ Len(clipboard) = 802

----------------------------------------------------------------------------
(* Properties of the legacy dashboard *)

\* C20: a download link that is shown points to the report_file (JSON link)
\* or pdf_file (PDF link) of the /analyze that succeeded last; no shown link
\* refers to a report of an earlier analysis.
C20_LinksPointToLastReport ==
    /\ downloadReport.display # "none"
       => /\ "report_file" \in DOMAIN lastSuccess
          /\ downloadReport.href = [path |-> "/download/", file |-> lastSuccess.report_file]
    /\ downloadPdf.display # "none"
       => /\ "pdf_file" \in DOMAIN lastSuccess
          /\ downloadPdf.href = [path |-> "/download_pdf/", file |-> lastSuccess.pdf_file]

\* A step in which the i-th /analyze in flight ends in the catch block: a
\* status that is not 2xx, a transport error, a body that is not JSON, a body
\* with an error field, or a body whose report or scores are missing.
AnalysisErrorStep(i) ==
    \/ analyzeFetchSettled(i, "notOk")
    \/ analyzeFetchSettled(i, "networkError")
    \/ \E n \in 1..MaxAnalyses : \E body \in AnalyzeBodies(n) \cup {Malformed} :
          /\ analyzeJsonSettled(i, body)
          /\ \/ body = Malformed
             \/ "error" \in DOMAIN body
             \/ ~HasScores(ReportOf(body))

\* C21: when an /analyze submission ends with an analysis error shown, the
\* stored current report and the visibility of the results area are what
\* they were before, and the Analyze button is enabled again.
C21_ErrorLeavesReport ==
    [][\A i \in 1..MaxAnalyzePending :
          AnalysisErrorStep(i)
          => /\ errorMsg'.display = "block"
             /\ currentReport' = currentReport
             /\ resultsArea' = resultsArea
             /\ ~analyzeBtnDisabled']_vars

----------------------------------------------------------------------------
(* Properties of the busy flag and of the payload of the React dashboard *)

\* C22: the busy flag is true exactly when the active kind is not none; while
\* it is true the active kind is the kind of the one analysis in flight; and
\* the step that clears one clears the other.
C22_BusyMatchesActiveKind ==
    /\ [](/\ isAnalyzing <=> activeAnalysis # Null
          /\ isAnalyzing
             => /\ InFlight = 1
                /\ \A j \in 1..Len(pending) : pending[j].kind = activeAnalysis
                /\ timers # << >> => activeAnalysis = "security")
    /\ [][(isAnalyzing /\ ~isAnalyzing') <=> (activeAnalysis # Null /\ activeAnalysis' = Null)]_vars

\* A bug analysis is in flight after an analysis that failed.
C22_Witness ==
    /\ isAnalyzing
    /\ activeAnalysis = "bugs"
    /\ Len(pending) = 1
    /\ pending[1].kind = "bugs"
    /\ accepted = 2
    /\ DOMAIN results = {}

----------------------------------------------------------------------------
(* Further properties of the legacy dashboard *)

\* C23: at most one /analyze request is in flight at any time: the Analyze
\* button is disabled in every state in which a request is in flight, whatever
\* the interleaving of submit, reset, file selection and response events.
C23_OneAnalyzeInFlight ==
    /\ Len(analyzePending) <= 1
    /\ analyzePending # << >> => analyzeBtnDisabled

\* The page as the reset button leaves it.
ResetState ==
    /\ resultsArea = "none"
    /\ welcomeState = "flex"
    /\ currentReport = NoReport

\* C24: after Reset the results area is hidden, the welcome state is shown and
\* the current report is null, and this remains so until the response to an
\* analysis submitted after that reset arrives: a response to a request
\* submitted before the reset does not bring the results back.
C24_ResetDiscardsOldResponses ==
    [][/\ resetClick => ResetState'
       /\ (ResetState /\ ~ResetState')
          => \E i \in 1..Len(analyzePending) :
                /\ analyzePending[i].id > resetAt
                /\ \E body \in AnalyzeBodies(analyzePending[i].id) :
                      analyzeJsonSettled(i, body)]_vars

----------------------------------------------------------------------------
(* Further properties of the auth page *)

\* C25: on the auth page the loading flag is true exactly while a login or
\* register request is in flight and the submit button is disabled exactly
\* then, so at most one such request is in flight; and the step that ends a
\* submission leaves the loading flag false.
C25_LoadingWhileInFlight ==
    /\ [](/\ Len(authPending) <= 1
          /\ AuthMounted
             => /\ loading <=> authPending # << >>
                /\ SubmitDisabled <=> authPending # << >>)
    /\ [][(AuthMounted /\ Len(authPending') < Len(authPending)) => ~loading']_vars

\* A second submission is in flight after the first one has ended.
C25_Witness ==
    /\ AuthMounted
    /\ loading
    /\ Len(authPending) = 1
    /\ submits = 2

\* C26: at most one of the error message and the success message is non-empty
\* in every reachable state, and editing any field or toggling between login
\* and register clears both.
C26_OneMessageAtMost ==
    /\ [](error = NoMessage \/ success = NoMessage)
    /\ [][(\/ toggleMode
           \/ \E field \in {"name", "email", "password"} :
                 \E value \in FieldValues(field) : handleInputChange(field, value))
          => (error' = NoMessage /\ success' = NoMessage)]_vars

\* After a successful submission, a second one has failed while the redirect
\* was still to come: the error is shown and the success message is gone.
C26_Witness ==
    /\ AuthMounted
    /\ redirects > 0
    /\ error # NoMessage
    /\ success = NoMessage

----------------------------------------------------------------------------
(* Properties of the upload form of the legacy dashboard *)

\* C27: on a 401 response to /analyze the isLoggedIn item is removed and the
\* browser is sent to /login; the current report and the displayed results
\* are not changed, the response shows no error message, and the loading
\* state of the Analyze button is reset all the same.
C27_UnauthorizedRedirects ==
    [][\A i \in 1..MaxAnalyzePending :
          analyzeFetchSettled(i, "unauthorized")
          => /\ ~isLoggedIn'
             /\ location'["legacy"] = "/login"
             /\ UNCHANGED <<currentReport, resultsArea, welcomeState, geminiMetrics,
                            stats, bugReportPre, correctedCodePre, downloadReport,
                            downloadPdf>>
             /\ UNCHANGED errorMsg
             /\ ~analyzeBtnDisabled']_vars

\* A 401 has answered the second analysis: the browser is on its way to
\* /login with the report of the first analysis still on screen.
C27_Witness ==
    /\ ~isLoggedIn
    /\ location["legacy"] = "/login"
    /\ analyzeCount = 2
    /\ HasReport
    /\ resultsArea = "block"
    /\ errorMsg.display = "none"
    /\ ~analyzeBtnDisabled

\* C28: a submission with no file selected, or with a file larger than 10 MB,
\* shows an error message and sends no /analyze request; the Analyze button
\* does not enter its loading state, and the current report and the displayed
\* results are not changed.
C28_InvalidFileSendsNothing ==
    [][(/\ uploadSubmit
        /\ ~analyzeBtnDisabled
        /\ (fileInput = NoFile \/ fileInput.size > 10 * 1024 * 1024))
       => /\ errorMsg'.display = "block"
          /\ errorMsg'.text \in {<<"Please select a file first.">>,
                                 <<"File size too large. Maximum 10MB allowed.">>}
          /\ UNCHANGED <<analyzePending, analyzeCount, analyzeBtnDisabled>>
          /\ UNCHANGED <<currentReport, resultsArea, welcomeState, geminiMetrics, stats,
                         bugReportPre, correctedCodePre, downloadReport, downloadPdf>>]_vars

\* After one analysis, a file of 10 MB and one byte was submitted: the error
\* is shown, nothing is in flight and the report is still on screen.
C28_Witness ==
    /\ fileInput # NoFile
    /\ fileInput.size > 10 * 1024 * 1024
    /\ errorMsg = showError(<<"File size too large. Maximum 10MB allowed.">>)
    /\ analyzePending = << >>
    /\ analyzeCount = 1
    /\ ~analyzeBtnDisabled
    /\ HasReport
    /\ resultsArea = "block"

----------------------------------------------------------------------------
(* Properties of the translate button of the legacy dashboard *)

\* A step in which the i-th translation in flight fails: a status that is
\* not 2xx, a transport error, or a body that is not JSON.
TranslationFailedStep(i) ==
    \/ translateFetchSettled(i, "notOk")
    \/ translateFetchSettled(i, "networkError")
    \/ translateJsonSettled(i, Malformed)

\* C29: a click on the translate button with no current report shows an error
\* and sends no request; otherwise the button is disabled from the click until
\* the translation has settled and is enabled again afterwards; the
\* placeholder texts '[no bug report]' and '[no corrected code]' are never
\* sent for translation; and a failed translation leaves the text unchanged.
C29_TranslateKeepsTexts ==
    /\ [](/\ translatePending # << >> => translateBtn.disabled
          /\ translateBtn.disabled => (translatePending # << >> \/ translateTimers > 0)
          /\ translateSent \cap {NoText, NoBugReport, NoCorrectedCode} = {})
    /\ [][/\ (translateClick /\ ~translateBtn.disabled /\ ~HasReport)
             => /\ errorMsg' = showError(<<"No report available to translate">>)
                /\ UNCHANGED <<translatePending, translateSent, translateBtn>>
          /\ \A i \in 1..MaxTranslations :
                TranslationFailedStep(i)
                => UNCHANGED <<bugReportPre, correctedCodePre>>]_vars

----------------------------------------------------------------------------
(* Properties of the payload of the React dashboard *)

\* The part of a request that is sent and the kind its result is stored under.
Sent(req) == [kind |-> req.kind, code |-> req.code, filename |-> req.filename]

\* C30: the file name attached to the payload of a quality, bugs or docs
\* analysis is the name of the file selected last if one was ever selected,
\* else 'code.py'; the code blob is the trimmed code input at the time of the
\* dispatch; and what the user edits or selects after the dispatch changes
\* neither the request nor the kind under which its result is stored.
C30_PayloadFixedAtDispatch ==
    [][/\ \A kind \in FetchKinds :
             (ClickAnalyze(kind) /\ Len(pending') = Len(pending) + 1)
             => /\ pending'[Len(pending')].kind = kind
                /\ pending'[Len(pending')].code = Trim(codeInput)
                /\ pending'[Len(pending')].filename =
                      IF uploadedFile = NoFile THEN "code.py" ELSE uploadedFile.name
       /\ Len(pending') = Len(pending)
          => \A j \in 1..Len(pending) : Sent(pending'[j]) = Sent(pending[j])
       /\ \A i \in 1..Len(pending) : \A body \in ResponseBodies \ {Malformed} :
             SuccessStep(i, body)
             => /\ DOMAIN results' = DOMAIN results \cup {pending[i].kind}
                /\ \A k \in DOMAIN results : k # pending[i].kind => results'[k] = results[k]]_vars

\* A docs analysis was dispatched with f2.js selected and its text in the
\* editor; the user has since selected f1.py and its text has been read.
C30_Witness ==
    /\ Len(pending) = 1
    /\ pending[1].kind = "docs"
    /\ pending[1].filename = "f2.js"
    /\ pending[1].code = <<"a">>
    /\ uploadedFile # NoFile
    /\ uploadedFile.name = "f1.py"
    /\ codeInput = <<"b">>

====
